---- MODULE Spec2Model ----
(***************************************************************************)
(* The sans-io session state machines of mtapy: ReceiverProtocol           *)
(* (receiver.py) and SenderProtocol (sender.py), with the message and      *)
(* model helpers they call (protocol.py, models.py, constants.py).         *)
(*                                                                         *)
(* Encoding of Python values                                               *)
(*   Optional[X]   None is <<>>, a present value x is <<x>>                *)
(*   dict          a function from its keys (strings) to its values        *)
(*   dataclass     a record; events carry their class name in "kind"       *)
(*   generator     the sequence of the (event, response) pairs it yields   *)
(*   f-string URL  the tuple of its literal and interpolated parts         *)
(* Inbound frames are WSMessage objects whose payload fields carry the     *)
(* types the dataclasses declare (version and type integers, taskId, id    *)
(* and reason strings, catShareText and thumbnail Optional[str]).          *)
(***************************************************************************)
EXTENDS Integers, Sequences, FiniteSets, TLC

VARIABLES under_test, observe, receiver, sender, pre, last, rtrace, strace,
          emitted, driver, net, ble, log, output_dir

vars == <<under_test, observe, receiver, sender, pre, last, rtrace, strace,
          emitted, driver, net, ble, log, output_dir>>

\* the variables of the transport layer (transport.py)
transportVars == <<driver, net, ble, log, output_dir>>

(***************************************************************************)
(* Bounds of the exploration.                                              *)
(***************************************************************************)
\* longest recorded sequence of visited states of one protocol object
MaxTrace == 5
\* private keys are 1..MaxPrivate
MaxPrivate == 3
\* most advertisements the scanner reports during one start_scan
MaxAdverts == 3
\* most entries of one bundle
MaxEntries == 2
\* most frames one protocol object originates (calls of _next_msg_id)
MaxFrames == 3
\* most messages the peer sends on one WebSocket
MaxArrivals == 2
MaxWrites == 3

(***************************************************************************)
(* constants.py                                                            *)
(***************************************************************************)
WS_TYPE_ACTION == "action"
WS_TYPE_ACK == "ack"
WS_ACTION_VERSION_NEGOTIATION == "versionNegotiation"
WS_ACTION_SEND_REQUEST == "sendRequest"
WS_ACTION_STATUS == "status"
STATUS_OK == 1
STATUS_ERROR == 2
STATUS_USER_REFUSE == 3
PROTOCOL_VERSION == 1
ADV_SERVICE_UUID == "00003331-0000-1000-8000-008123456789"

(***************************************************************************)
(* Python built-ins used by the code.                                      *)
(***************************************************************************)
None == <<>>
Some(x) == <<x>>
IsNone(o) == o = None
Val(o) == o[1]

\* dict.get(key, default)
Get(d, k, default) == IF k \in DOMAIN d THEN d[k] ELSE default

\* dict.get(key) for an Optional-valued key: None when the key is missing
GetOpt(d, k) == IF k \in DOMAIN d THEN d[k] ELSE None

\* truth value of an Optional[dict]: None and {} are both false
Truthy(p) == ~IsNone(p) /\ DOMAIN Val(p) # {}

\* (max in its place)
MinSwapped(a, b) == IF a <= b THEN b ELSE a
\* min(a, b) on integers
Min(a, b) == IF a <= b THEN a ELSE b

\* (no case folding at all)
LowerAsIs(s) == s
\* str.lower() on the names that occur as frame names
Lower(s) ==
  CASE s = "versionNegotiation" -> "versionnegotiation"
    [] s = "VERSIONNEGOTIATION" -> "versionnegotiation"
    [] s = "sendRequest" -> "sendrequest"
    [] s = "SendRequest" -> "sendrequest"
    [] s = "status" -> "status"
    [] s = "STATUS" -> "status"
    [] OTHER -> s

(***************************************************************************)
(* protocol.py                                                             *)
(***************************************************************************)
WSMessage(type, id, name, payload) ==
  [type |-> type, id |-> id, name |-> name, payload |-> payload]

\* (an ack that numbers itself instead of echoing the id)
make_ack_own_id(msg, response_payload) ==
  WSMessage(WS_TYPE_ACK, msg.id + 1, msg.name, response_payload)
\* WSMessage.make_ack(response_payload)
make_ack(msg, response_payload) ==
  WSMessage(WS_TYPE_ACK, msg.id, msg.name, response_payload)

make_version_negotiation(msg_id, version) ==
  WSMessage(WS_TYPE_ACTION, msg_id, "versionNegotiation",
            Some([version |-> version, versions |-> <<version>>]))

make_send_request(msg_id, request_dict) ==
  WSMessage(WS_TYPE_ACTION, msg_id, "sendRequest", Some(request_dict))

\* (a status frame that carries the task id under taskId only)
make_status_no_id(msg_id, task_id, status_type, reason) ==
  WSMessage(WS_TYPE_ACTION, msg_id, WS_ACTION_STATUS,
            Some([taskId |-> task_id, type |-> status_type,
                  reason |-> reason]))
\* make_status(msg_id, task_id, status_type, reason)
make_status(msg_id, task_id, status_type, reason) ==
  WSMessage(WS_TYPE_ACTION, msg_id, WS_ACTION_STATUS,
            Some([taskId |-> task_id, id |-> task_id, type |-> status_type,
                  reason |-> reason]))

(***************************************************************************)
(* models.py                                                               *)
(***************************************************************************)
\* (the task id read from taskId alone)
TaskIdOfTaskId(d) == Get(d, "taskId", "")
\* d.get("taskId") or d.get("id", ""): the first operand is taken unless it
\* is missing (None) or the empty string
TaskIdOf(d) ==
  IF "taskId" \in DOMAIN d /\ d["taskId"] # ""
  THEN d["taskId"]
  ELSE Get(d, "id", "")

\* (from_dict that never reads catShareText)
SendRequest_from_dict_no_text(d) ==
  [task_id |-> TaskIdOf(d),
   sender_id |-> Get(d, "senderId", ""),
   sender_name |-> Get(d, "senderName", "Unknown"),
   file_name |-> Get(d, "fileName", ""),
   mime_type |-> Get(d, "mimeType", "*/*"),
   file_count |-> Get(d, "fileCount", 1),
   total_size |-> Get(d, "totalSize", 0),
   text_content |-> None,
   thumbnail |-> GetOpt(d, "thumbnail")]
\* SendRequest.from_dict
SendRequest_from_dict(d) ==
  [task_id |-> TaskIdOf(d),
   sender_id |-> Get(d, "senderId", ""),
   sender_name |-> Get(d, "senderName", "Unknown"),
   file_name |-> Get(d, "fileName", ""),
   mime_type |-> Get(d, "mimeType", "*/*"),
   file_count |-> Get(d, "fileCount", 1),
   total_size |-> Get(d, "totalSize", 0),
   text_content |-> GetOpt(d, "catShareText"),
   thumbnail |-> GetOpt(d, "thumbnail")]

\* TransferStatus.from_dict
TransferStatus_from_dict(d) ==
  [type |-> Get(d, "type", 0),
   reason |-> Get(d, "reason", ""),
   task_id |-> TaskIdOf(d)]

(***************************************************************************)
(* receiver.py: events                                                     *)
(***************************************************************************)
VersionNegotiated(version, thread_limit) ==
  [kind |-> "VersionNegotiated", version |-> version,
   thread_limit |-> thread_limit]
SendRequestReceived(request, thumbnail_path) ==
  [kind |-> "SendRequestReceived", request |-> request,
   thumbnail_path |-> thumbnail_path]
TransferAccepted(task_id, download_url) ==
  [kind |-> "TransferAccepted", task_id |-> task_id,
   download_url |-> download_url]
TextReceived(text, task_id) ==
  [kind |-> "TextReceived", text |-> text, task_id |-> task_id]
StatusReceived(status) == [kind |-> "StatusReceived", status |-> status]
ProtocolError(message) == [kind |-> "ProtocolError", message |-> message]

(***************************************************************************)
(* receiver.py: ReceiverProtocol                                           *)
(***************************************************************************)
ReceiverState ==
  {"WAITING_VERSION", "WAITING_SEND_REQUEST", "WAITING_USER_ACCEPT",
   "TRANSFERRING", "COMPLETED", "FAILED"}

\* ReceiverProtocol.__init__(server_host, server_port)
ReceiverInit(server_host, server_port) ==
  [server_host |-> server_host,
   server_port |-> server_port,
   state |-> "WAITING_VERSION",
   version |-> PROTOCOL_VERSION,
   thread_limit |-> 5,
   send_request |-> None,
   msg_id_counter |-> 99]

\* the result of a generator call: the object afterwards, the pairs yielded,
\* the exception that ended it (None when it returned)
Result(obj, yielded) == [obj |-> obj, yielded |-> yielded, raised |-> None]

\* on_ws_message, the versionNegotiation branch
ReceiverVersionNegotiation(r, msg) ==
  LET in_version == IF Truthy(msg.payload)
                    THEN Get(Val(msg.payload), "version", 1)
                    ELSE 1
      version == Min(in_version, PROTOCOL_VERSION)
      response_payload == [version |-> version, threadLimit |-> r.thread_limit]
  IN Result([r EXCEPT !.version = version, !.state = "WAITING_SEND_REQUEST"],
            << <<Some(VersionNegotiated(version, r.thread_limit)),
                 Some(make_ack(msg, Some(response_payload)))>> >>)

\* (a sendRequest branch that acks a missing payload without reporting it)
ReceiverSendRequestDropsError(r, msg) ==
  IF IsNone(msg.payload)
  THEN Result(r, << <<None, Some(make_ack(msg, None))>> >>)
  ELSE LET request == SendRequest_from_dict(Val(msg.payload))
           r2 == [r EXCEPT !.send_request = Some(request),
                           !.state = "WAITING_USER_ACCEPT"]
       IN IF ~IsNone(request.text_content)
          THEN Result(r2, << <<Some(TextReceived(Val(request.text_content),
                                                 request.task_id)),
                               Some(make_ack(msg, None))>> >>)
          ELSE Result(r2, << <<Some(SendRequestReceived(request,
                                                        request.thumbnail)),
                               Some(make_ack(msg, None))>> >>)
\* on_ws_message, the sendRequest branch
ReceiverSendRequest(r, msg) ==
  IF IsNone(msg.payload)
  THEN Result(r, << <<Some(ProtocolError("sendRequest has no payload")),
                      Some(make_ack(msg, None))>> >>)
  ELSE LET request == SendRequest_from_dict(Val(msg.payload))
           r2 == [r EXCEPT !.send_request = Some(request),
                           !.state = "WAITING_USER_ACCEPT"]
       IN IF ~IsNone(request.text_content)
          THEN Result(r2, << <<Some(TextReceived(Val(request.text_content),
                                                 request.task_id)),
                               Some(make_ack(msg, None))>> >>)
          ELSE Result(r2, << <<Some(SendRequestReceived(request,
                                                        request.thumbnail)),
                               Some(make_ack(msg, None))>> >>)

\* (a status branch that fails on any type 3, whatever the reason)
ReceiverStatusAnyReason(r, msg) ==
  IF IsNone(msg.payload)
  THEN Result(r, << <<Some(ProtocolError("status has no payload")),
                      Some(make_ack(msg, None))>> >>)
  ELSE LET status == TransferStatus_from_dict(Val(msg.payload))
       IN Result(IF status.type = STATUS_USER_REFUSE
                 THEN [r EXCEPT !.state = "FAILED"]
                 ELSE r,
                 << <<Some(StatusReceived(status)),
                      Some(make_ack(msg, None))>> >>)
\* on_ws_message, the status branch
ReceiverStatus(r, msg) ==
  IF IsNone(msg.payload)
  THEN Result(r, << <<Some(ProtocolError("status has no payload")),
                      Some(make_ack(msg, None))>> >>)
  ELSE LET status == TransferStatus_from_dict(Val(msg.payload))
       IN Result(IF status.type = STATUS_USER_REFUSE
                    /\ status.reason = "user refuse"
                 THEN [r EXCEPT !.state = "FAILED"]
                 ELSE r,
                 << <<Some(StatusReceived(status)),
                      Some(make_ack(msg, None))>> >>)

\* (on_ws_message whose ack of an unknown action echoes the payload)
ReceiverOnWsMessageEchoesPayload(r, msg) ==
  IF msg.type # WS_TYPE_ACTION
  THEN Result(r, <<>>)
  ELSE LET name_lower == Lower(msg.name)
       IN CASE name_lower = Lower(WS_ACTION_VERSION_NEGOTIATION) ->
                 ReceiverVersionNegotiation(r, msg)
            [] name_lower = Lower(WS_ACTION_SEND_REQUEST) ->
                 ReceiverSendRequest(r, msg)
            [] name_lower = Lower(WS_ACTION_STATUS) ->
                 ReceiverStatus(r, msg)
            [] OTHER ->
                 Result(r, << <<None, Some(make_ack(msg, msg.payload))>> >>)
\* ReceiverProtocol.on_ws_message
ReceiverOnWsMessage(r, msg) ==
  IF msg.type # WS_TYPE_ACTION
  THEN Result(r, <<>>)
  ELSE LET name_lower == Lower(msg.name)
       IN CASE name_lower = Lower(WS_ACTION_VERSION_NEGOTIATION) ->
                 ReceiverVersionNegotiation(r, msg)
            [] name_lower = Lower(WS_ACTION_SEND_REQUEST) ->
                 ReceiverSendRequest(r, msg)
            [] name_lower = Lower(WS_ACTION_STATUS) ->
                 ReceiverStatus(r, msg)
            [] OTHER ->
                 Result(r, << <<None, Some(make_ack(msg, None))>> >>)

\* the download URL accept_transfer formats
DownloadUrl(host, port, task_id) ==
  <<"https://", host, ":", port, "/download?taskId=", task_id>>

\* (accept_transfer that leaves the state as it was)
ReceiverAcceptTransferNoState(r) ==
  IF IsNone(r.send_request)
  THEN [obj |-> r, ret |-> <<None, None>>]
  ELSE [obj |-> r,
        ret |-> <<Some(TransferAccepted(
                         Val(r.send_request).task_id,
                         DownloadUrl(r.server_host, r.server_port,
                                     Val(r.send_request).task_id))),
                  None>>]
\* ReceiverProtocol.accept_transfer: the object afterwards, the pair returned
ReceiverAcceptTransfer(r) ==
  IF IsNone(r.send_request)
  THEN [obj |-> r, ret |-> <<None, None>>]
  ELSE [obj |-> [r EXCEPT !.state = "TRANSFERRING"],
        ret |-> <<Some(TransferAccepted(
                         Val(r.send_request).task_id,
                         DownloadUrl(r.server_host, r.server_port,
                                     Val(r.send_request).task_id))),
                  None>>]

\* the task id reject_transfer and send_ok put in the status frame
StoredTaskId(r) ==
  IF ~IsNone(r.send_request) THEN Val(r.send_request).task_id ELSE ""

\* (a counter that is returned before it is incremented)
ReceiverNextMsgIdPost(r) == [counter |-> r.msg_id_counter + 1,
                             msg_id |-> r.msg_id_counter]
\* ReceiverProtocol._next_msg_id: the counter afterwards, the id returned
ReceiverNextMsgId(r) == [counter |-> r.msg_id_counter + 1,
                         msg_id |-> r.msg_id_counter + 1]

\* ReceiverProtocol.reject_transfer: the object afterwards, the frame returned
ReceiverRejectTransfer(r) ==
  LET n == ReceiverNextMsgId(r)
  IN [obj |-> [r EXCEPT !.state = "FAILED", !.msg_id_counter = n.counter],
      ret |-> make_status(n.msg_id, StoredTaskId(r), STATUS_USER_REFUSE,
                          "user refuse")]

\* (send_ok that numbers its frame without advancing the counter)
ReceiverSendOkNoCount(r) ==
  LET n == ReceiverNextMsgId(r)
  IN [obj |-> [r EXCEPT !.state = "COMPLETED"],
      ret |-> make_status(n.msg_id, StoredTaskId(r), STATUS_OK, "ok")]
\* ReceiverProtocol.send_ok: the object afterwards, the frame returned
ReceiverSendOk(r) ==
  LET n == ReceiverNextMsgId(r)
  IN [obj |-> [r EXCEPT !.state = "COMPLETED", !.msg_id_counter = n.counter],
      ret |-> make_status(n.msg_id, StoredTaskId(r), STATUS_OK, "ok")]

(***************************************************************************)
(* sender.py: events and FileSpec                                          *)
(***************************************************************************)
VersionAcked(version) == [kind |-> "VersionAcked", version |-> version]
RequestSent(task_id) == [kind |-> "RequestSent", task_id |-> task_id]
TransferStarted(task_id) == [kind |-> "TransferStarted", task_id |-> task_id]
TransferCompleted(task_id) ==
  [kind |-> "TransferCompleted", task_id |-> task_id]
TransferRejected(reason) == [kind |-> "TransferRejected", reason |-> reason]
SenderProtocolError(message) ==
  [kind |-> "SenderProtocolError", message |-> message]

FileSpec(name, size, mime_type, text_content) ==
  [name |-> name, size |-> size, mime_type |-> mime_type,
   text_content |-> text_content]

(***************************************************************************)
(* models.py: SendRequest.to_dict                                          *)
(***************************************************************************)
SendRequest_to_dict(q) ==
  [taskId |-> q.task_id,
   id |-> q.task_id,
   senderId |-> q.sender_id,
   senderName |-> q.sender_name,
   fileName |-> q.file_name,
   mimeType |-> q.mime_type,
   fileCount |-> q.file_count,
   totalSize |-> q.total_size]
  @@ (IF ~IsNone(q.text_content)
      THEN [catShareText |-> q.text_content] ELSE <<>>)
  @@ (IF ~IsNone(q.thumbnail)
      THEN [thumbnail |-> q.thumbnail] ELSE <<>>)

(***************************************************************************)
(* sender.py: SenderProtocol                                               *)
(***************************************************************************)
SenderState ==
  {"INITIAL", "SENT_VERSION", "SENT_REQUEST", "WAITING_DOWNLOAD",
   "TRANSFERRING", "COMPLETED", "REJECTED", "FAILED"}

\* SenderProtocol.__init__(device_name, sender_id); task_id is the value
\* generate_task_id() drew
SenderInit(device_name, sender_id, task_id) ==
  [device_name |-> device_name,
   sender_id |-> sender_id,
   task_id |-> task_id,
   state |-> "INITIAL",
   version |-> PROTOCOL_VERSION,
   files |-> <<>>,
   msg_id |-> 0,
   version_ack_received |-> FALSE,
   request_ack_received |-> FALSE]

RECURSIVE SumSizes(_)
\* sum(f.size for f in files)
SumSizes(files) ==
  IF files = <<>> THEN 0 ELSE Head(files).size + SumSizes(Tail(files))

\* (a request whose mime type is that of the first file)
BuildSendRequestFirstMime(s) ==
  IF s.files = <<>> THEN None
  ELSE Some([task_id |-> s.task_id,
             sender_id |-> s.sender_id,
             sender_name |-> s.device_name,
             file_name |-> s.files[1].name,
             mime_type |-> s.files[1].mime_type,
             file_count |-> Len(s.files),
             total_size |-> SumSizes(s.files),
             text_content |-> IF Len(s.files) = 1
                              THEN s.files[1].text_content ELSE None,
             thumbnail |-> None])
\* SenderProtocol._build_send_request: Some(request), or None where
\* next(iter(mime_types)) raises StopIteration on the empty set
BuildSendRequest(s) ==
  LET file_count == Len(s.files)
      mime_types == {s.files[i].mime_type : i \in 1..file_count}
      text_content == IF file_count = 1 THEN s.files[1].text_content ELSE None
      request(mime_type) ==
        [task_id |-> s.task_id,
         sender_id |-> s.sender_id,
         sender_name |-> s.device_name,
         file_name |-> IF s.files # <<>> THEN s.files[1].name ELSE "",
         mime_type |-> mime_type,
         file_count |-> file_count,
         total_size |-> SumSizes(s.files),
         text_content |-> text_content,
         thumbnail |-> None]
  IN IF file_count = 1 THEN Some(request(s.files[1].mime_type))
     ELSE IF Cardinality(mime_types) > 1 THEN Some(request("*/*"))
     ELSE IF mime_types = {} THEN None
     ELSE Some(request(CHOOSE m \in mime_types : TRUE))

\* SenderProtocol.set_files
SenderSetFiles(s, files) == [s EXCEPT !.files = files]

\* SenderProtocol._next_msg_id: the counter afterwards, the id returned
SenderNextMsgId(s) == [counter |-> s.msg_id + 1, msg_id |-> s.msg_id]

\* (start_handshake that always numbers its frame 0)
SenderStartHandshakeIdZero(s) ==
  [obj |-> [s EXCEPT !.state = "SENT_VERSION"],
   ret |-> <<make_version_negotiation(0, s.version)>>]
\* SenderProtocol.start_handshake: the object afterwards, the list returned
SenderStartHandshake(s) ==
  LET n == SenderNextMsgId(s)
  IN [obj |-> [s EXCEPT !.state = "SENT_VERSION", !.msg_id = n.counter],
      ret |-> <<make_version_negotiation(n.msg_id, s.version)>>]

\* a generator call ended by an exception after the pairs yielded
Raised(obj, yielded, exc) ==
  [obj |-> obj, yielded |-> yielded, raised |-> Some(exc)]

\* on_ws_message, the ack of versionNegotiation
SenderVersionAck(s, msg) ==
  LET acked_version == IF Truthy(msg.payload)
                       THEN Get(Val(msg.payload), "version", 1)
                       ELSE 1
      version == Min(acked_version, s.version)
      s1 == [s EXCEPT !.version_ack_received = TRUE, !.version = version]
      request == BuildSendRequest(s1)
  IN IF IsNone(request)
     THEN Raised(s1, <<>>, "RuntimeError: generator raised StopIteration")
     ELSE LET n == SenderNextMsgId(s1)
              request_msg ==
                make_send_request(n.msg_id, SendRequest_to_dict(Val(request)))
          IN Result([s1 EXCEPT !.msg_id = n.counter,
                               !.state = "SENT_REQUEST"],
                    << <<Some(VersionAcked(version)), Some(request_msg)>> >>)

\* (an ack of sendRequest that reports RequestSent but keeps the state)
SenderRequestAckNoState(s, msg) ==
  Result([s EXCEPT !.request_ack_received = TRUE],
         << <<Some(RequestSent(s.task_id)), None>> >>)
\* on_ws_message, the ack of sendRequest
SenderRequestAck(s, msg) ==
  Result([s EXCEPT !.request_ack_received = TRUE,
                   !.state = "WAITING_DOWNLOAD"],
         << <<Some(RequestSent(s.task_id)), None>> >>)

\* (a status action that rejects only on the reason "user refuse", as the
\* receiver's does)
SenderStatusRefuseOnly(s, msg) ==
  IF IsNone(msg.payload)
  THEN Result(s, << <<Some(SenderProtocolError("status has no payload")),
                      Some(make_ack(msg, None))>> >>)
  ELSE LET status == TransferStatus_from_dict(Val(msg.payload))
       IN IF status.type = STATUS_USER_REFUSE
             /\ status.reason = "user refuse"
          THEN Result([s EXCEPT !.state = "REJECTED"],
                      << <<Some(TransferRejected(status.reason)),
                           Some(make_ack(msg, None))>> >>)
          ELSE IF status.type = STATUS_OK
          THEN Result([s EXCEPT !.state = "COMPLETED"],
                      << <<Some(TransferCompleted(s.task_id)),
                           Some(make_ack(msg, None))>> >>)
          ELSE Result(s, << <<None, Some(make_ack(msg, None))>> >>)
\* on_ws_message, the status action
SenderStatus(s, msg) ==
  IF IsNone(msg.payload)
  THEN Result(s, << <<Some(SenderProtocolError("status has no payload")),
                      Some(make_ack(msg, None))>> >>)
  ELSE LET status == TransferStatus_from_dict(Val(msg.payload))
       IN IF status.type = STATUS_USER_REFUSE
          THEN Result([s EXCEPT !.state = "REJECTED"],
                      << <<Some(TransferRejected(status.reason)),
                           Some(make_ack(msg, None))>> >>)
          ELSE IF status.type = STATUS_OK
          THEN Result([s EXCEPT !.state = "COMPLETED"],
                      << <<Some(TransferCompleted(s.task_id)),
                           Some(make_ack(msg, None))>> >>)
          ELSE Result(s, << <<None, Some(make_ack(msg, None))>> >>)

\* SenderProtocol.on_ws_message
SenderOnWsMessage(s, msg) ==
  LET name_lower == Lower(msg.name)
  IN IF msg.type = WS_TYPE_ACK
     THEN CASE name_lower = Lower(WS_ACTION_VERSION_NEGOTIATION) ->
                 SenderVersionAck(s, msg)
            [] name_lower = Lower(WS_ACTION_SEND_REQUEST) ->
                 SenderRequestAck(s, msg)
            [] name_lower = Lower(WS_ACTION_STATUS) ->
                 Result(s, << <<None, None>> >>)
            [] OTHER -> Result(s, <<>>)
     ELSE IF msg.type = WS_TYPE_ACTION
     THEN IF name_lower = Lower(WS_ACTION_STATUS)
          THEN SenderStatus(s, msg)
          ELSE Result(s, << <<None, Some(make_ack(msg, None))>> >>)
     ELSE Result(s, <<>>)

\* (on_download_started that starts the session over)
SenderOnDownloadStartedAnew(s) ==
  [obj |-> [s EXCEPT !.state = "INITIAL"],
   ret |-> TransferStarted(s.task_id)]
\* SenderProtocol.on_download_started: the object afterwards, the event
SenderOnDownloadStarted(s) ==
  [obj |-> [s EXCEPT !.state = "TRANSFERRING"],
   ret |-> TransferStarted(s.task_id)]

(***************************************************************************)
(* The inbound frames and caller inputs the exploration draws from.        *)
(***************************************************************************)
FramesOf(types, ids, named) ==
  {WSMessage(t, i, np[1], np[2]) : t \in types, i \in ids, np \in named}

VersionPayloads ==
  {None, Some(<<>>),
   Some([version |-> 0, versions |-> <<0>>]),
   Some([version |-> 1, versions |-> <<1>>]),
   Some([version |-> 2, versions |-> <<2>>, threadLimit |-> 5]),
   Some([threadLimit |-> 5])}

FileRequest ==
  [taskId |-> "555", id |-> "555", senderId |-> "abcd", senderName |-> "X",
   fileName |-> "a.jpg", mimeType |-> "image/jpeg", fileCount |-> 2,
   totalSize |-> 9, thumbnail |-> Some("/thumb/555")]
TextRequest ==
  [taskId |-> "555", senderId |-> "abcd", senderName |-> "X",
   fileName |-> "t.txt", mimeType |-> "text/plain", fileCount |-> 1,
   totalSize |-> 5, catShareText |-> Some("hello")]

RequestPayloads ==
  {None, Some(<<>>), Some(FileRequest), Some(TextRequest),
   Some([id |-> "777", fileName |-> "b.bin"]),
   Some([taskId |-> "555", fileName |-> "c.txt", catShareText |-> None])}

StatusPayloads ==
  {None, Some(<<>>),
   Some([taskId |-> "555", id |-> "555", type |-> 3, reason |-> "user refuse"]),
   Some([taskId |-> "555", type |-> 3, reason |-> "busy"]),
   Some([id |-> "555", type |-> 1, reason |-> "ok"]),
   Some([taskId |-> "555", type |-> 1, reason |-> "user refuse"]),
   Some([taskId |-> "555", type |-> 2, reason |-> "error"])}

\* the names as the constants spell them, and in another letter-casing
CanonicalNames(named) ==
  {np \in named :
     np[1] \in {WS_ACTION_VERSION_NEGOTIATION, WS_ACTION_SEND_REQUEST,
                WS_ACTION_STATUS}}
Recased(name) ==
  CASE name = "versionNegotiation" -> "VERSIONNEGOTIATION"
    [] name = "sendRequest" -> "SendRequest"
    [] name = "status" -> "STATUS"
    [] OTHER -> name
RecasedNames(named) == {<<Recased(np[1]), np[2]>> : np \in CanonicalNames(named)}

ActionPayloads ==
  ({"versionNegotiation"} \X VersionPayloads)
  \cup ({"sendRequest"} \X RequestPayloads)
  \cup ({"status"} \X StatusPayloads)
  \cup ({"cancel"} \X {None, Some([taskId |-> "555"])})

\* what a peer may send a ReceiverProtocol
ReceiverFrames ==
  FramesOf({"action"}, {0}, ActionPayloads)
  \cup FramesOf({"action"}, {7}, RecasedNames(ActionPayloads))
  \cup FramesOf({"ack", "ping"}, {7},
                {<<"versionNegotiation", Some([version |-> 1])>>,
                 <<"status", None>>})

AckPayloads ==
  ({"versionNegotiation"} \X VersionPayloads)
  \cup ({"sendRequest", "status", "cancel"} \X {None})

StatusActions ==
  ({"status"} \X StatusPayloads)
  \cup ({"versionNegotiation", "sendRequest", "cancel"} \X {None})

\* what a peer may send a SenderProtocol
SenderFrames ==
  FramesOf({"ack"}, {0}, AckPayloads)
  \cup FramesOf({"ack"}, {1}, RecasedNames(AckPayloads))
  \cup FramesOf({"action"}, {100}, StatusActions)
  \cup FramesOf({"action"}, {101}, RecasedNames(StatusActions))
  \cup FramesOf({"ping"}, {0}, {<<"status", None>>})

FileLists ==
  {<<>>,
   <<FileSpec("a.jpg", 4, "image/jpeg", None)>>,
   <<FileSpec("t.txt", 5, "text/plain", Some("hello"))>>,
   <<FileSpec("a.jpg", 4, "image/jpeg", None),
     FileSpec("b.jpg", 5, "image/jpeg", None)>>,
   <<FileSpec("a.jpg", 4, "image/jpeg", None),
     FileSpec("t.txt", 5, "text/plain", Some("hello"))>>}

\* values generate_task_id() may draw
TaskIds == {"100000", "555555"}

(***************************************************************************)
(* The state machine: one protocol object per behaviour, driven by any     *)
(* sequence of calls of its public methods.                                *)
(*   under_test  the class of the object constructed                       *)
(*   observe     what the behaviour records of the object: "calls" (pre    *)
(*               and last) or "states" (rtrace and strace)                 *)
(*   receiver    the fields of the ReceiverProtocol                        *)
(*   sender      the fields of the SenderProtocol                          *)
(*   pre         the object's fields before the last call                  *)
(*   last        the last call: its name, argument and everything it       *)
(*               yielded or returned                                       *)
(*   rtrace      the values receiver.state has taken, in order             *)
(*   strace      the values sender.state has taken, in order               *)
(*   emitted     the ids of the action frames the object has originated,   *)
(*               in the order it handed them out                           *)
(* The transport variables (driver, net, ble, log) stay as TransportIdle   *)
(* leaves them: no MTAReceiver runs in these behaviours.                   *)
(***************************************************************************)
\* the ids of the frames of type action among the responses of the pairs
\* yielded, in order
RECURSIVE OriginatedIds(_)
OriginatedIds(yielded) ==
  IF yielded = <<>> THEN <<>>
  ELSE (IF ~IsNone(Head(yielded)[2])
           /\ Val(Head(yielded)[2]).type = WS_TYPE_ACTION
        THEN <<Val(Head(yielded)[2]).id>> ELSE <<>>)
       \o OriginatedIds(Tail(yielded))

\* the ids of the frames in a list a method returned
FrameIds(frames) == [i \in 1..Len(frames) |-> frames[i].id]

NoCall ==
  [op |-> "__init__", msg |-> None, yielded |-> <<>>, ret |-> None,
   raised |-> None]

Call(op, msg, yielded, ret, raised) ==
  [op |-> op, msg |-> msg, yielded |-> yielded, ret |-> ret,
   raised |-> raised]

\* the trace after a call that left the object in state st
Visit(trace, st) ==
  IF trace[Len(trace)] = st THEN trace ELSE Append(trace, st)

\* no MTAReceiver operation is running
TransportIdle ==
  /\ driver = [pc |-> "idle"]
  /\ net = [ws |-> "none"]
  /\ ble = [gatt |-> FALSE]
  /\ log = <<>>
  /\ output_dir = <<>>

InitObjects ==
  /\ under_test \in {"ReceiverProtocol", "SenderProtocol"}
  /\ receiver = ReceiverInit("192.168.49.1", 8443)
  /\ \E t \in TaskIds : sender = SenderInit("MTA Device", "abcd", t)
  /\ pre = IF under_test = "ReceiverProtocol" THEN receiver ELSE sender
  /\ last = NoCall
  /\ rtrace = <<receiver.state>>
  /\ strace = <<sender.state>>
  /\ emitted = <<>>
  /\ TransportIdle

Init == observe = "calls" /\ InitObjects

InitStates == observe = "states" /\ InitObjects

ReceiverLive ==
  /\ under_test = "ReceiverProtocol"
  /\ Len(rtrace) < MaxTrace

SenderLive ==
  /\ under_test = "SenderProtocol"
  /\ Len(strace) < MaxTrace

\* the observers' part of a call op(msg) on object obj that yielded and
\* returned as given and left the object in state st
Observe(obj, op, msg, yielded, ret, raised, trace, st) ==
  /\ observe' = observe
  /\ IF observe = "calls"
     THEN /\ pre' = obj
          /\ last' = Call(op, msg, yielded, ret, raised)
          /\ UNCHANGED <<rtrace, strace>>
     ELSE /\ UNCHANGED <<pre, last>>
          /\ IF under_test = "ReceiverProtocol"
             THEN rtrace' = Visit(trace, st) /\ UNCHANGED strace
             ELSE strace' = Visit(trace, st) /\ UNCHANGED rtrace

R_on_ws_message ==
  /\ ReceiverLive
  /\ \E msg \in ReceiverFrames :
       LET res == ReceiverOnWsMessage(receiver, msg)
       IN /\ receiver' = res.obj
          /\ Observe(receiver, "on_ws_message", Some(msg), res.yielded, None,
                     res.raised, rtrace, res.obj.state)
          /\ emitted' = emitted \o OriginatedIds(res.yielded)
  /\ UNCHANGED <<under_test, sender>>
  /\ UNCHANGED transportVars

R_accept_transfer ==
  /\ ReceiverLive
  /\ LET res == ReceiverAcceptTransfer(receiver)
     IN /\ receiver' = res.obj
        /\ Observe(receiver, "accept_transfer", None, <<>>, Some(res.ret),
                   None, rtrace, res.obj.state)
        /\ emitted' = emitted \o OriginatedIds(<<res.ret>>)
  /\ UNCHANGED <<under_test, sender>>
  /\ UNCHANGED transportVars

R_reject_transfer ==
  /\ ReceiverLive
  /\ receiver.msg_id_counter < 99 + MaxFrames
  /\ LET res == ReceiverRejectTransfer(receiver)
     IN /\ receiver' = res.obj
        /\ Observe(receiver, "reject_transfer", None, <<>>, Some(res.ret),
                   None, rtrace, res.obj.state)
        /\ emitted' = emitted \o FrameIds(<<res.ret>>)
  /\ UNCHANGED <<under_test, sender>>
  /\ UNCHANGED transportVars

R_send_ok ==
  /\ ReceiverLive
  /\ receiver.msg_id_counter < 99 + MaxFrames
  /\ LET res == ReceiverSendOk(receiver)
     IN /\ receiver' = res.obj
        /\ Observe(receiver, "send_ok", None, <<>>, Some(res.ret), None,
                   rtrace, res.obj.state)
        /\ emitted' = emitted \o FrameIds(<<res.ret>>)
  /\ UNCHANGED <<under_test, sender>>
  /\ UNCHANGED transportVars

S_set_files ==
  /\ SenderLive
  /\ \E files \in FileLists :
       /\ files # sender.files
       /\ sender' = SenderSetFiles(sender, files)
  /\ Observe(sender, "set_files", None, <<>>, None, None, strace,
             sender.state)
  /\ UNCHANGED <<under_test, receiver, emitted>>
  /\ UNCHANGED transportVars

S_start_handshake ==
  /\ SenderLive
  /\ sender.msg_id < MaxFrames
  /\ LET res == SenderStartHandshake(sender)
     IN /\ sender' = res.obj
        /\ Observe(sender, "start_handshake", None, <<>>, Some(res.ret),
                   None, strace, res.obj.state)
        /\ emitted' = emitted \o FrameIds(res.ret)
  /\ UNCHANGED <<under_test, receiver>>
  /\ UNCHANGED transportVars

S_on_ws_message ==
  /\ SenderLive
  /\ sender.msg_id < MaxFrames
  /\ \E msg \in SenderFrames :
       LET res == SenderOnWsMessage(sender, msg)
       IN /\ sender' = res.obj
          /\ Observe(sender, "on_ws_message", Some(msg), res.yielded, None,
                     res.raised, strace, res.obj.state)
          /\ emitted' = emitted \o OriginatedIds(res.yielded)
  /\ UNCHANGED <<under_test, receiver>>
  /\ UNCHANGED transportVars

S_on_download_started ==
  /\ SenderLive
  /\ LET res == SenderOnDownloadStarted(sender)
     IN /\ sender' = res.obj
        /\ Observe(sender, "on_download_started", None, <<>>, Some(res.ret),
                   None, strace, res.obj.state)
  /\ UNCHANGED <<under_test, receiver, emitted>>
  /\ UNCHANGED transportVars

Next ==
  \/ R_on_ws_message
  \/ R_accept_transfer
  \/ R_reject_transfer
  \/ R_send_ok
  \/ S_set_files
  \/ S_start_handshake
  \/ S_on_ws_message
  \/ S_on_download_started

\* every behaviour of one protocol object, recording its calls
Spec == Init /\ [][Next]_vars

\* every behaviour of one protocol object, recording the states it visits
SpecStates == InitStates /\ [][Next]_vars

(***************************************************************************)
(* Vocabulary of the properties.                                           *)
(***************************************************************************)
OnReceiver == under_test = "ReceiverProtocol"
OnSender == under_test = "SenderProtocol"

\* the last call was on_ws_message
Handled == last.op = "on_ws_message"
\* its argument
InMsg == Val(last.msg)
\* the last call was on_ws_message with a frame of this type and name
HandledFrame(type, name) ==
  /\ Handled
  /\ InMsg.type = type
  /\ InMsg.name \in {name, Recased(name)}

\* the outbound frames among the pairs yielded, in order
RECURSIVE Outbound(_)
Outbound(yielded) ==
  IF yielded = <<>> THEN <<>>
  ELSE (IF IsNone(Head(yielded)[2]) THEN <<>> ELSE <<Val(Head(yielded)[2])>>)
       \o Outbound(Tail(yielded))

\* the events among the pairs yielded, in order
RECURSIVE Events(_)
Events(yielded) ==
  IF yielded = <<>> THEN <<>>
  ELSE (IF IsNone(Head(yielded)[1]) THEN <<>> ELSE <<Val(Head(yielded)[1])>>)
       \o Events(Tail(yielded))

\* the frame a call returned (reject_transfer, send_ok)
RetFrame == Val(last.ret)

SuccessfulTransfer ==
  /\ OnReceiver
  /\ Len(rtrace) >= 2
  /\ rtrace[Len(rtrace)] = "COMPLETED"
  /\ rtrace[Len(rtrace) - 1] = "TRANSFERRING"

C2_StateSequenceInOrder ==
  SuccessfulTransfer =>
    rtrace = <<"WAITING_VERSION", "WAITING_SEND_REQUEST",
               "WAITING_USER_ACCEPT", "TRANSFERRING", "COMPLETED">>

(***************************************************************************)
(* C3. Once the sender has processed an ack of versionNegotiation (of      *)
(* sendRequest), processing another ack of that name yields no outbound    *)
(* frame and no event and leaves state, version and the outbound-id        *)
(* counter as they were.                                                   *)
(***************************************************************************)
DuplicateAck ==
  /\ OnSender
  /\ \/ HandledFrame(WS_TYPE_ACK, "versionNegotiation")
        /\ pre.version_ack_received
     \/ HandledFrame(WS_TYPE_ACK, "sendRequest")
        /\ pre.request_ack_received

C3_DuplicateAckIgnored ==
  DuplicateAck =>
    /\ Outbound(last.yielded) = <<>>
    /\ Events(last.yielded) = <<>>
    /\ sender.state = pre.state
    /\ sender.version = pre.version
    /\ sender.msg_id = pre.msg_id

(***************************************************************************)
(* C4. At most one SendRequest is in flight: a sender whose sendRequest is *)
(* out and not yet resolved by a status emits no other sendRequest, and a  *)
(* receiver holding a request that is not yet accepted, rejected or        *)
(* completed keeps its task_id when another sendRequest arrives.           *)
(***************************************************************************)
RequestInFlight ==
  pre.state \in {"SENT_REQUEST", "WAITING_DOWNLOAD", "TRANSFERRING"}

EmitsSendRequest ==
  \E i \in 1..Len(Outbound(last.yielded)) :
    /\ Outbound(last.yielded)[i].type = WS_TYPE_ACTION
    /\ Outbound(last.yielded)[i].name = WS_ACTION_SEND_REQUEST

C4_OneRequestInFlight ==
  /\ (OnSender /\ Handled /\ RequestInFlight) => ~EmitsSendRequest
  /\ (OnReceiver /\ Handled /\ pre.state = "WAITING_USER_ACCEPT") =>
       StoredTaskId(receiver) = StoredTaskId(pre)

(***************************************************************************)
(* C5. A receiver in WaitVersion that receives action versionNegotiation   *)
(* with payload version v yields exactly one pair, the ack of the frame    *)
(* with payload {version: min(v, 1), threadLimit: 5} and the event         *)
(* VersionNegotiated(min(v, 1), 5), and moves to WaitRequest; without a    *)
(* payload or without a version field v is 1.                              *)
(***************************************************************************)
\* the version the peer states in the inbound frame, 1 when it states none
PeerVersion ==
  IF IsNone(InMsg.payload) THEN 1
  ELSE IF "version" \in DOMAIN Val(InMsg.payload)
       THEN Val(InMsg.payload)["version"]
       ELSE 1

EffectiveVersion == IF PeerVersion < 1 THEN PeerVersion ELSE 1

C5_VersionNegotiation ==
  (/\ OnReceiver
   /\ HandledFrame(WS_TYPE_ACTION, "versionNegotiation")
   /\ pre.state = "WAITING_VERSION") =>
    /\ receiver.state = "WAITING_SEND_REQUEST"
    /\ last.yielded =
         << << Some([kind |-> "VersionNegotiated",
                     version |-> EffectiveVersion, thread_limit |-> 5]),
               Some([type |-> "ack", id |-> InMsg.id, name |-> InMsg.name,
                     payload |-> Some([version |-> EffectiveVersion,
                                       threadLimit |-> 5])]) >> >>

C5_Witness ==
  /\ OnReceiver
  /\ HandledFrame(WS_TYPE_ACTION, "versionNegotiation")
  /\ pre.state = "WAITING_VERSION"
  /\ PeerVersion = 0
  /\ receiver.version = 0
  /\ receiver.state = "WAITING_SEND_REQUEST"

(***************************************************************************)
(* C6. A receiver in WaitRequest that receives action sendRequest with a   *)
(* payload moves to WaitUserAccept and yields exactly one pair: the ack of *)
(* the frame, without payload, together with TextReceived(text, task_id)   *)
(* if the payload carries catShareText and SendRequestReceived(request)    *)
(* otherwise.                                                              *)
(***************************************************************************)
RequestHandled ==
  /\ OnReceiver
  /\ HandledFrame(WS_TYPE_ACTION, "sendRequest")
  /\ ~IsNone(InMsg.payload)
  /\ pre.state = "WAITING_SEND_REQUEST"

\* the task id the request payload states: taskId, else id, else ""
PayloadTaskId(d) ==
  IF "taskId" \in DOMAIN d /\ d["taskId"] # "" THEN d["taskId"]
  ELSE IF "id" \in DOMAIN d THEN d["id"]
  ELSE ""

CarriesText(d) == "catShareText" \in DOMAIN d
CarriesNonNullText(d) == CarriesText(d) /\ d["catShareText"] # None

\* the single pair yielded is the bare ack with the event of this kind
YieldsAckWith(kind) ==
  /\ Len(last.yielded) = 1
  /\ last.yielded[1][2] =
       Some([type |-> "ack", id |-> InMsg.id, name |-> InMsg.name,
             payload |-> None])
  /\ ~IsNone(last.yielded[1][1])
  /\ Val(last.yielded[1][1]).kind = kind

\* as claimed: TextReceived exactly when the key catShareText is present
C6_TextIffCarried ==
  RequestHandled =>
    /\ receiver.state = "WAITING_USER_ACCEPT"
    /\ IF CarriesText(Val(InMsg.payload))
       THEN YieldsAckWith("TextReceived")
       ELSE YieldsAckWith("SendRequestReceived")

\* as the code has it: TextReceived exactly when catShareText is present
\* and not null
C6_TextIffNotNull ==
  RequestHandled =>
    /\ receiver.state = "WAITING_USER_ACCEPT"
    /\ IF CarriesNonNullText(Val(InMsg.payload))
       THEN /\ YieldsAckWith("TextReceived")
            /\ Val(last.yielded[1][1]).text =
                 Val(Val(InMsg.payload)["catShareText"])
            /\ Val(last.yielded[1][1]).task_id =
                 PayloadTaskId(Val(InMsg.payload))
       ELSE /\ YieldsAckWith("SendRequestReceived")
            /\ Some(Val(last.yielded[1][1]).request) = receiver.send_request
            /\ Val(last.yielded[1][1]).request.task_id =
                 PayloadTaskId(Val(InMsg.payload))

C6_Witness ==
  /\ RequestHandled
  /\ last.yielded[1][1] =
       Some([kind |-> "TextReceived", text |-> "hello", task_id |-> "555"])
  /\ receiver.state = "WAITING_USER_ACCEPT"

(***************************************************************************)
(* C7. On an inbound action status with a payload the receiver, whatever   *)
(* its state, moves to Failed if the payload has type 3 and reason "user   *)
(* refuse" and keeps its state otherwise; in both cases it yields exactly  *)
(* one pair, the ack of the frame and a StatusReceived event.              *)
(***************************************************************************)
StatusHandled ==
  /\ OnReceiver
  /\ HandledFrame(WS_TYPE_ACTION, "status")
  /\ ~IsNone(InMsg.payload)

IsUserRefuse(d) ==
  /\ "type" \in DOMAIN d /\ d["type"] = 3
  /\ "reason" \in DOMAIN d /\ d["reason"] = "user refuse"

C7_StatusRefuseFails ==
  StatusHandled =>
    /\ receiver.state = IF IsUserRefuse(Val(InMsg.payload))
                        THEN "FAILED" ELSE pre.state
    /\ YieldsAckWith("StatusReceived")

C7_Witness ==
  /\ StatusHandled
  /\ IsUserRefuse(Val(InMsg.payload))
  /\ pre.state = "TRANSFERRING"
  /\ receiver.state = "FAILED"

(***************************************************************************)
(* C8. accept_transfer called in WaitUserAccept moves the receiver to      *)
(* Transferring and returns, with no outbound frame, a TransferAccepted    *)
(* whose task_id is the stored request's and whose download_url is         *)
(* https://{host}:{port}/download?taskId={task_id}.                        *)
(***************************************************************************)
C8_AcceptTransfer ==
  (OnReceiver /\ last.op = "accept_transfer"
   /\ pre.state = "WAITING_USER_ACCEPT") =>
    /\ receiver.state = "TRANSFERRING"
    /\ ~IsNone(pre.send_request)
    /\ Val(last.ret) =
         << Some([kind |-> "TransferAccepted",
                  task_id |-> Val(pre.send_request).task_id,
                  download_url |->
                    <<"https://", pre.server_host, ":", pre.server_port,
                      "/download?taskId=", Val(pre.send_request).task_id>>]),
            None >>

C8_Witness ==
  /\ OnReceiver
  /\ last.op = "accept_transfer"
  /\ pre.state = "WAITING_USER_ACCEPT"
  /\ receiver.state = "TRANSFERRING"
  /\ Val(Val(last.ret)[1]).download_url =
       <<"https://", "192.168.49.1", ":", 8443, "/download?taskId=", "777">>

(***************************************************************************)
(* C9. reject_transfer called in WaitUserAccept moves the receiver to      *)
(* Failed and returns an action status frame with type 3, reason "user     *)
(* refuse" and the stored request's task id under both taskId and id; as   *)
(* the first frame the receiver originates it has id 100.                  *)
(***************************************************************************)
\* no frame originated yet: the counter is where __init__ put it
FirstOwnFrame == pre.msg_id_counter = ReceiverInit("", 0).msg_id_counter

C9_RejectTransfer ==
  (OnReceiver /\ last.op = "reject_transfer"
   /\ pre.state = "WAITING_USER_ACCEPT") =>
    /\ receiver.state = "FAILED"
    /\ ~IsNone(pre.send_request)
    /\ RetFrame.type = "action"
    /\ RetFrame.name = "status"
    /\ RetFrame.payload =
         Some([taskId |-> Val(pre.send_request).task_id,
               id |-> Val(pre.send_request).task_id,
               type |-> 3, reason |-> "user refuse"])
    /\ FirstOwnFrame => RetFrame.id = 100

C9_Witness ==
  /\ OnReceiver
  /\ last.op = "reject_transfer"
  /\ pre.state = "WAITING_USER_ACCEPT"
  /\ FirstOwnFrame
  /\ receiver.state = "FAILED"
  /\ RetFrame.id = 100
  /\ Val(RetFrame.payload)["taskId"] = "555"

(***************************************************************************)
(* C10. Once a sendRequest with task id t has been accepted (the receiver  *)
(* is Transferring), send_ok returns the action status frame with payload  *)
(* {taskId: t, id: t, type: 1, reason: "ok"} and moves the receiver to     *)
(* Completed; as the first frame the receiver originates it is             *)
(* action:100:status.  The request accepted is the one stored while        *)
(* Transferring: the state is entered only by an accept_transfer that      *)
(* returns the stored task id, and no call that stays in it replaces the   *)
(* stored request.                                                         *)
(***************************************************************************)
C10_SendOk ==
  /\ (OnReceiver /\ last.op = "send_ok" /\ pre.state = "TRANSFERRING") =>
       /\ receiver.state = "COMPLETED"
       /\ ~IsNone(pre.send_request)
       /\ RetFrame.type = "action"
       /\ RetFrame.name = "status"
       /\ RetFrame.payload =
            Some([taskId |-> Val(pre.send_request).task_id,
                  id |-> Val(pre.send_request).task_id,
                  type |-> 1, reason |-> "ok"])
       /\ FirstOwnFrame => RetFrame.id = 100
  /\ (OnReceiver /\ receiver.state = "TRANSFERRING") =>
       IF pre.state = "TRANSFERRING"
       THEN receiver.send_request = pre.send_request
       ELSE /\ last.op = "accept_transfer"
            /\ receiver.send_request = pre.send_request
            /\ Val(Val(last.ret)[1]).task_id =
                 Val(receiver.send_request).task_id

C10_Witness ==
  /\ OnReceiver
  /\ last.op = "send_ok"
  /\ pre.state = "TRANSFERRING"
  /\ FirstOwnFrame
  /\ receiver.state = "COMPLETED"
  /\ RetFrame =
       [type |-> "action", id |-> 100, name |-> "status",
        payload |-> Some([taskId |-> "555", id |-> "555", type |-> 1,
                          reason |-> "ok"])]

(***************************************************************************)
(* C11. Whatever reject_transfer and send_ok calls are interleaved with    *)
(* whatever inbound messages, the ids of the action frames the receiver    *)
(* originates are 100, 101, 102, ... in emission order, and on_ws_message  *)
(* (like accept_transfer) originates no frame and leaves the counter as it *)
(* was.                                                                    *)
(***************************************************************************)
\* the first n ids counted from first
IdsFrom(first, n) == [i \in 1..n |-> first + i - 1]

C11_ReceiverIdsFrom100 ==
  OnReceiver =>
    /\ emitted = IdsFrom(100, Len(emitted))
    /\ receiver.msg_id_counter = 99 + Len(emitted)
    /\ last.op \in {"on_ws_message", "accept_transfer"} =>
         receiver.msg_id_counter = pre.msg_id_counter
    /\ last.op \in {"reject_transfer", "send_ok"} =>
         /\ RetFrame.type = WS_TYPE_ACTION
         /\ RetFrame.id = emitted[Len(emitted)]
         /\ RetFrame.id = pre.msg_id_counter + 1

C11_Witness ==
  /\ OnReceiver
  /\ emitted = <<100, 101, 102>>
  /\ Handled
  /\ InMsg.type = WS_TYPE_ACTION
  /\ pre.msg_id_counter = 102
  /\ receiver.msg_id_counter = 102

(***************************************************************************)
(* C12. The ids of the action frames the sender originates (the            *)
(* versionNegotiation of start_handshake and every sendRequest) are 0, 1,  *)
(* 2, ... in emission order; an ack the sender yields has the id of the    *)
(* inbound frame and takes no value from the counter.                      *)
(***************************************************************************)
\* the last call yielded an ack
YieldedAck ==
  /\ Handled
  /\ Outbound(last.yielded) # <<>>
  /\ Outbound(last.yielded)[1].type = WS_TYPE_ACK

C12_SenderIdsFrom0 ==
  OnSender =>
    /\ emitted = IdsFrom(0, Len(emitted))
    /\ sender.msg_id = Len(emitted)
    /\ YieldedAck =>
         /\ Len(Outbound(last.yielded)) = 1
         /\ Outbound(last.yielded)[1].id = InMsg.id
         /\ sender.msg_id = pre.msg_id

C12_Witness ==
  /\ OnSender
  /\ emitted = <<0, 1, 2>>
  /\ HandledFrame(WS_TYPE_ACK, "versionNegotiation")
  /\ Outbound(last.yielded)[1].name = WS_ACTION_SEND_REQUEST
  /\ Outbound(last.yielded)[1].id = 2

(***************************************************************************)
(* C13. Whatever file list is configured, the empty one included, a sender *)
(* in SentVersion that receives an ack of versionNegotiation yields        *)
(* exactly one pair, VersionAcked with an action sendRequest that carries  *)
(* the session task_id, and moves to SentRequest.                          *)
(***************************************************************************)
VersionAckHandled ==
  /\ OnSender
  /\ HandledFrame(WS_TYPE_ACK, "versionNegotiation")
  /\ pre.state = "SENT_VERSION"

C13_VersionAckSendsRequest ==
  VersionAckHandled =>
    /\ IsNone(last.raised)
    /\ Len(last.yielded) = 1
    /\ ~IsNone(last.yielded[1][1])
    /\ Val(last.yielded[1][1]).kind = "VersionAcked"
    /\ ~IsNone(last.yielded[1][2])
    /\ Val(last.yielded[1][2]).type = WS_TYPE_ACTION
    /\ Val(last.yielded[1][2]).name = WS_ACTION_SEND_REQUEST
    /\ Val(Val(last.yielded[1][2]).payload)["taskId"] = pre.task_id
    /\ Val(Val(last.yielded[1][2]).payload)["fileCount"] = Len(pre.files)
    /\ sender.state = "SENT_REQUEST"

(***************************************************************************)
(* C14. An ack of sendRequest moves the sender to WaitDownload and yields  *)
(* exactly one pair: RequestSent with the session task_id, and no outbound *)
(* frame.                                                                  *)
(***************************************************************************)
C14_RequestAck ==
  (OnSender /\ HandledFrame(WS_TYPE_ACK, "sendRequest")) =>
    /\ sender.state = "WAITING_DOWNLOAD"
    /\ IsNone(last.raised)
    /\ last.yielded =
         << << Some([kind |-> "RequestSent", task_id |-> pre.task_id]),
               None >> >>

C14_Witness ==
  /\ OnSender
  /\ HandledFrame(WS_TYPE_ACK, "sendRequest")
  /\ pre.state = "SENT_REQUEST"
  /\ sender.state = "WAITING_DOWNLOAD"
  /\ Events(last.yielded) =
       <<[kind |-> "RequestSent", task_id |-> "555555"]>>
  /\ Outbound(last.yielded) = <<>>

(***************************************************************************)
(* C15. On an inbound action status with a payload the sender moves to     *)
(* Completed and yields TransferCompleted when type is 1, moves to         *)
(* Rejected and yields TransferRejected(reason) when type is 3 whatever    *)
(* the reason, and keeps its state with no event for any other type; each  *)
(* time the single pair yielded has the ack of the frame.                  *)
(***************************************************************************)
SenderStatusHandled ==
  /\ OnSender
  /\ HandledFrame(WS_TYPE_ACTION, "status")
  /\ ~IsNone(InMsg.payload)

\* the type and the reason a status payload states, 0 and "" when missing
StatusType(d) == IF "type" \in DOMAIN d THEN d["type"] ELSE 0
StatusReason(d) == IF "reason" \in DOMAIN d THEN d["reason"] ELSE ""

\* the ack of the inbound frame, without payload
BareAck ==
  Some([type |-> "ack", id |-> InMsg.id, name |-> InMsg.name,
        payload |-> None])

C15_SenderStatus ==
  SenderStatusHandled =>
    /\ IsNone(last.raised)
    /\ Len(last.yielded) = 1
    /\ last.yielded[1][2] = BareAck
    /\ CASE StatusType(Val(InMsg.payload)) = 1 ->
              /\ sender.state = "COMPLETED"
              /\ last.yielded[1][1] =
                   Some([kind |-> "TransferCompleted",
                         task_id |-> pre.task_id])
         [] StatusType(Val(InMsg.payload)) = 3 ->
              /\ sender.state = "REJECTED"
              /\ last.yielded[1][1] =
                   Some([kind |-> "TransferRejected",
                         reason |-> StatusReason(Val(InMsg.payload))])
         [] OTHER ->
              /\ sender.state = pre.state
              /\ last.yielded[1][1] = None

C15_Witness ==
  /\ SenderStatusHandled
  /\ pre.state = "TRANSFERRING"
  /\ StatusType(Val(InMsg.payload)) = 3
  /\ StatusReason(Val(InMsg.payload)) = "busy"
  /\ sender.state = "REJECTED"
  /\ Events(last.yielded) =
       <<[kind |-> "TransferRejected", reason |-> "busy"]>>

(***************************************************************************)
(* C16. An action sendRequest or status without payload is answered with   *)
(* exactly one ack and reported by a ProtocolError event on the receiver   *)
(* (an action status by a SenderProtocolError on the sender), and leaves   *)
(* state, stored request and message-id counter, as every other field, as  *)
(* they were.                                                              *)
(***************************************************************************)
NoPayloadHandled(name) ==
  /\ HandledFrame(WS_TYPE_ACTION, name)
  /\ IsNone(InMsg.payload)

\* the single pair yielded is the bare ack with an error event of this kind
YieldsErrorAndAck(kind) ==
  /\ IsNone(last.raised)
  /\ Len(last.yielded) = 1
  /\ last.yielded[1][2] = BareAck
  /\ ~IsNone(last.yielded[1][1])
  /\ Val(last.yielded[1][1]).kind = kind

C16_MissingPayload ==
  /\ (OnReceiver /\ (NoPayloadHandled("sendRequest")
                     \/ NoPayloadHandled("status"))) =>
       /\ YieldsErrorAndAck("ProtocolError")
       /\ receiver = pre
  /\ (OnSender /\ NoPayloadHandled("status")) =>
       /\ YieldsErrorAndAck("SenderProtocolError")
       /\ sender = pre

C16_Witness ==
  /\ OnReceiver
  /\ NoPayloadHandled("sendRequest")
  /\ pre.state = "WAITING_USER_ACCEPT"
  /\ pre.msg_id_counter = 100
  /\ receiver.send_request = pre.send_request
  /\ ~IsNone(receiver.send_request)
  /\ receiver.state = "WAITING_USER_ACCEPT"
  /\ Events(last.yielded) =
       <<[kind |-> "ProtocolError", message |-> "sendRequest has no payload"]>>

(***************************************************************************)
(* C17. Action-name matching is case-insensitive: a frame whose name is    *)
(* versionNegotiation, sendRequest or status in another letter-casing      *)
(* leaves the receiver (the sender) with the same fields, the same events  *)
(* and the same outbound frames as the frame with the canonical spelling   *)
(* does in the same state, but for the name of the ack, which is the name  *)
(* as received.                                                            *)
(***************************************************************************)
\* the spelling of the constants for a name in another letter-casing
Canonical(name) ==
  CASE name = "VERSIONNEGOTIATION" -> "versionNegotiation"
    [] name = "SendRequest" -> "sendRequest"
    [] name = "STATUS" -> "status"
    [] OTHER -> name

RecasedHandled == Handled /\ InMsg.name # Canonical(InMsg.name)

\* what the handler does in the state before the call with the same frame
\* under its canonical name
CanonicalResult ==
  LET canon == [InMsg EXCEPT !.name = Canonical(InMsg.name)]
  IN IF OnReceiver THEN ReceiverOnWsMessage(pre, canon)
     ELSE SenderOnWsMessage(pre, canon)

\* frame f is frame g but for the name of an ack, which is the one received
SameButAckName(f, g) ==
  /\ f.type = g.type
  /\ f.id = g.id
  /\ f.payload = g.payload
  /\ f.name = IF g.type = WS_TYPE_ACK THEN InMsg.name ELSE g.name

C17_CaseInsensitive ==
  RecasedHandled =>
    /\ (IF OnReceiver THEN receiver ELSE sender) = CanonicalResult.obj
    /\ last.raised = CanonicalResult.raised
    /\ Events(last.yielded) = Events(CanonicalResult.yielded)
    /\ Len(last.yielded) = Len(CanonicalResult.yielded)
    /\ Len(Outbound(last.yielded)) = Len(Outbound(CanonicalResult.yielded))
    /\ \A i \in 1..Len(Outbound(last.yielded)) :
         SameButAckName(Outbound(last.yielded)[i],
                        Outbound(CanonicalResult.yielded)[i])

C17_Witness ==
  /\ OnReceiver
  /\ RecasedHandled
  /\ InMsg.name = "SendRequest"
  /\ pre.state = "WAITING_SEND_REQUEST"
  /\ receiver.state = "WAITING_USER_ACCEPT"
  /\ Outbound(last.yielded)[1].name = "SendRequest"
  /\ Val(receiver.send_request).task_id = "555"

(***************************************************************************)
(* C18. An inbound action whose name is none of versionNegotiation,        *)
(* sendRequest and status leaves every field of the receiver as it was and *)
(* yields exactly one pair: no event, and an ack without payload.          *)
(***************************************************************************)
UnknownActionHandled ==
  /\ OnReceiver
  /\ Handled
  /\ InMsg.type = WS_TYPE_ACTION
  /\ Canonical(InMsg.name) \notin
       {WS_ACTION_VERSION_NEGOTIATION, WS_ACTION_SEND_REQUEST,
        WS_ACTION_STATUS}

C18_UnknownAction ==
  UnknownActionHandled =>
    /\ receiver = pre
    /\ IsNone(last.raised)
    /\ last.yielded = << <<None, BareAck>> >>

C18_Witness ==
  /\ UnknownActionHandled
  /\ ~IsNone(InMsg.payload)
  /\ pre.state = "TRANSFERRING"
  /\ receiver.state = "TRANSFERRING"
  /\ Outbound(last.yielded) = <<WSMessage("ack", 0, "cancel", None)>>

(***************************************************************************)
(* protocol.py: the wire format, a text given by the parts of its          *)
(* f-string "type:id:name" followed, with a payload, by "?" and the JSON   *)
(* object.                                                                 *)
(***************************************************************************)
\* WSMessage.serialize()
Serialize(msg) ==
  <<msg.type, ":", msg.id, ":", msg.name>>
  \o (IF IsNone(msg.payload) THEN <<>> ELSE <<"?", Val(msg.payload)>>)

\* WSMessage.parse(text): None for a text MESSAGE_PATTERN does not match
Parse(text) ==
  IF Len(text) = 5 /\ text[2] = ":" /\ text[4] = ":"
  THEN Some(WSMessage(text[1], text[3], text[5], None))
  ELSE IF Len(text) = 7 /\ text[2] = ":" /\ text[4] = ":" /\ text[6] = "?"
  THEN Some(WSMessage(text[1], text[3], text[5], Some(text[7])))
  ELSE None

(***************************************************************************)
(* crypto.py: ECDH key agreement and the AES-CTR session cipher.           *)
(* A bytes value is a sequence over 0..255 and a str the sequence of its   *)
(* code points.  The curve is replaced by the multiplicative group modulo  *)
(* 23 with generator 5, and AES and the hash functions by small arithmetic *)
(* mixers; what is kept is what the code relies on: the exchange gives     *)
(* both peers one secret, every key and IV is a function of that secret,   *)
(* and CTR mode XORs the data with a key stream determined by the key,     *)
(* the IV and the position.                                                *)
(***************************************************************************)
RECURSIVE Xor(_, _)
\* a ^ b on non-negative integers
Xor(a, b) ==
  IF a = 0 THEN b
  ELSE IF b = 0 THEN a
  ELSE 2 * Xor(a \div 2, b \div 2) + (((a % 2) + (b % 2)) % 2)

RECURSIVE Pow(_, _)
Pow(x, n) == IF n = 0 THEN 1 ELSE x * Pow(x, n - 1)

RECURSIVE Utf8Encode(_)
\* str.encode("utf-8")
Utf8Encode(text) ==
  IF text = <<>> THEN <<>>
  ELSE LET c == Head(text)
           first ==
             IF c < 128 THEN <<c>>
             ELSE IF c < 2048 THEN <<192 + (c \div 64), 128 + (c % 64)>>
             ELSE IF c < 65536
             THEN <<224 + (c \div 4096), 128 + ((c \div 64) % 64),
                    128 + (c % 64)>>
             ELSE <<240 + (c \div 262144), 128 + ((c \div 4096) % 64),
                    128 + ((c \div 64) % 64), 128 + (c % 64)>>
       IN first \o Utf8Encode(Tail(text))

RECURSIVE Utf8Decode(_)
\* bytes.decode("utf-8"): the str, or None for UnicodeDecodeError
Utf8Decode(data) ==
  IF data = <<>> THEN Some(<<>>)
  ELSE LET b == data[1]
           n == IF b < 128 THEN 1
                ELSE IF b \in 194..223 THEN 2
                ELSE IF b \in 224..239 THEN 3
                ELSE IF b \in 240..244 THEN 4
                ELSE 0
           second == IF b = 224 THEN 160..191
                     ELSE IF b = 237 THEN 128..159
                     ELSE IF b = 240 THEN 144..191
                     ELSE IF b = 244 THEN 128..143
                     ELSE 128..191
           well_formed ==
             /\ n > 0
             /\ Len(data) >= n
             /\ n >= 2 => data[2] \in second
             /\ \A i \in 3..n : data[i] \in 128..191
           c == IF n = 1 THEN b
                ELSE IF n = 2 THEN (b - 192) * 64 + (data[2] - 128)
                ELSE IF n = 3
                THEN (b - 224) * 4096 + (data[2] - 128) * 64 + (data[3] - 128)
                ELSE (b - 240) * 262144 + (data[2] - 128) * 4096
                     + (data[3] - 128) * 64 + (data[4] - 128)
       IN IF ~well_formed THEN None
          ELSE LET rest == Utf8Decode(SubSeq(data, n + 1, Len(data)))
               IN IF IsNone(rest) THEN None ELSE Some(<<c>> \o Val(rest))

\* the code point of the i-th character of the base64 alphabet
B64Char(i) ==
  IF i < 26 THEN 65 + i
  ELSE IF i < 52 THEN 97 + (i - 26)
  ELSE IF i < 62 THEN 48 + (i - 52)
  ELSE IF i = 62 THEN 43
  ELSE 47

\* the place of a code point in the base64 alphabet, -1 outside of it
B64Index(c) ==
  IF c \in 65..90 THEN c - 65
  ELSE IF c \in 97..122 THEN c - 97 + 26
  ELSE IF c \in 48..57 THEN c - 48 + 52
  ELSE IF c = 43 THEN 62
  ELSE IF c = 47 THEN 63
  ELSE -1

RECURSIVE B64Encode(_)
\* base64.b64encode(data).decode("ascii"); 61 is "="
B64Encode(data) ==
  IF data = <<>> THEN <<>>
  ELSE IF Len(data) = 1
  THEN <<B64Char(data[1] \div 4), B64Char((data[1] % 4) * 16), 61, 61>>
  ELSE IF Len(data) = 2
  THEN <<B64Char(data[1] \div 4),
         B64Char((data[1] % 4) * 16 + (data[2] \div 16)),
         B64Char((data[2] % 16) * 4), 61>>
  ELSE <<B64Char(data[1] \div 4),
         B64Char((data[1] % 4) * 16 + (data[2] \div 16)),
         B64Char((data[2] % 16) * 4 + (data[3] \div 64)),
         B64Char(data[3] % 64)>>
       \o B64Encode(SubSeq(data, 4, Len(data)))

RECURSIVE B64Quads(_)
\* the bytes of a text of whole groups of four, None for a group that is
\* padded anywhere but at its end
B64Quads(s) ==
  IF s = <<>> THEN Some(<<>>)
  ELSE LET i == [k \in 1..4 |-> B64Index(s[k])]
           last_group == Len(s) = 4
       IN IF i[1] >= 0 /\ i[2] >= 0 /\ i[3] >= 0 /\ i[4] >= 0
          THEN LET rest == B64Quads(SubSeq(s, 5, Len(s)))
               IN IF IsNone(rest) THEN None
                  ELSE Some(<<i[1] * 4 + (i[2] \div 16),
                              (i[2] % 16) * 16 + (i[3] \div 4),
                              (i[3] % 4) * 64 + i[4]>> \o Val(rest))
          ELSE IF last_group /\ i[1] >= 0 /\ i[2] >= 0 /\ i[3] >= 0
          THEN Some(<<i[1] * 4 + (i[2] \div 16),
                      (i[2] % 16) * 16 + (i[3] \div 4)>>)
          ELSE IF last_group /\ i[1] >= 0 /\ i[2] >= 0 /\ s[3] = 61
                  /\ s[4] = 61
          THEN Some(<<i[1] * 4 + (i[2] \div 16)>>)
          ELSE None

\* base64.b64decode(s): characters outside the alphabet are discarded, and
\* None stands for binascii.Error
B64Decode(s) ==
  LET kept == SelectSeq(s, LAMBDA c : B64Index(c) >= 0 \/ c = 61)
  IN IF Len(kept) % 4 # 0 THEN None ELSE B64Quads(kept)

\* private_key.exchange(ec.ECDH(), peer_key)
Exchange(private_key, peer_key) == Pow(peer_key, private_key) % 23

\* DefaultCryptoProvider.get_public_key(): base64 of the DER encoding, a
\* SEQUENCE tag (0x30) before the point
GetPublicKey(private_key) == B64Encode(<<48, Pow(5, private_key) % 23>>)

\* one byte of the AES-CTR key stream
KeyStream(key, iv, i) == (key * 31 + iv * 17 + i * 7 + key * i * 3 + 13) % 256

\* encryptor.update(data) + encryptor.finalize(), and the decryptor alike
CtrCrypt(key, iv, data) ==
  [i \in 1..Len(data) |-> Xor(data[i], KeyStream(key, iv, i))]

\* the (key, IV) pairs of the cipher that derive_session_cipher of
\* src/mtapy/crypto.py builds from the shared secret
Candidates(shared_secret) ==
  LET IV_MAIN == 8
      IV_SEQ == 16
      IV_NULL == 0
      raw_key == shared_secret
      sha_key == (shared_secret * 37 + 11) % 251
      sha_iv == (shared_secret * 53 + 29) % 241
      get_hkdf_pair(info) ==
        <<(shared_secret * 41 + info * 7 + 3) % 239,
          (shared_secret * 43 + info * 5 + 1) % 233>>
  IN << <<raw_key, IV_MAIN>>, <<raw_key, IV_SEQ>>, <<raw_key, IV_NULL>>,
        <<sha_key, IV_MAIN>>, <<sha_key, IV_SEQ>>, <<sha_key, IV_NULL>>,
        <<sha_key, sha_iv>>,
        get_hkdf_pair(1), get_hkdf_pair(2), get_hkdf_pair(3) >>

\* the implementations of the session cipher
CryptoModules == {"crypto.py", "mtapy/crypto.py"}

\* DefaultCryptoProvider.derive_session_cipher(peer_public_key): the
\* cipher, a sequence of (key, IV) pairs, or the exception raised.  The
\* cipher of crypto.py has the raw key and AES_IV only.
DeriveSessionCipher(module, private_key, peer_public_key) ==
  LET peer_key_der == B64Decode(peer_public_key)
  IN IF IsNone(peer_key_der)
     THEN [ret |-> None, raised |-> Some("binascii.Error")]
     ELSE IF ~(/\ Len(Val(peer_key_der)) = 2
               /\ Val(peer_key_der)[1] = 48
               /\ Val(peer_key_der)[2] \in 1..22)
     THEN [ret |-> None, raised |-> Some("ValueError")]
     ELSE LET shared_secret == Exchange(private_key, Val(peer_key_der)[2])
              candidates == Candidates(shared_secret)
          IN [ret |-> Some(IF module = "crypto.py"
                           THEN SubSeq(candidates, 1, 1)
                           ELSE candidates),
              raised |-> None]

\* (encryption under the second candidate)
CipherEncryptSecond(cipher, data) ==
  LET c == cipher[IF Len(cipher) > 1 THEN 2 ELSE 1]
  IN B64Encode(CtrCrypt(c[1], c[2], Utf8Encode(data)))
\* DefaultSessionCipher.encrypt(data)
CipherEncrypt(cipher, data) ==
  B64Encode(CtrCrypt(cipher[1][1], cipher[1][2], Utf8Encode(data)))

\* DefaultSessionCipher.decrypt(encoded_data): the text of the first
\* candidate whose plain text decodes, or the exception raised
CipherDecrypt(cipher, encoded_data) ==
  LET ct == B64Decode(encoded_data)
      text(i) == Utf8Decode(CtrCrypt(cipher[i][1], cipher[i][2], Val(ct)))
      decoding == {i \in 1..Len(cipher) : ~IsNone(text(i))}
  IN IF IsNone(ct)
     THEN [ret |-> None, raised |-> Some("binascii.Error")]
     ELSE IF decoding = {}
     THEN [ret |-> None, raised |-> Some("UnicodeDecodeError")]
     ELSE [ret |-> text(CHOOSE i \in decoding : \A j \in decoding : i <= j),
           raised |-> None]

(***************************************************************************)
(* models.py: P2pInfo, and transport.py: the GATT write handler of         *)
(* MTAReceiver.listen.  A written value is a sequence of tokens, a         *)
(* [byte |-> b] for one byte and an [object |-> d] for the bytes of one    *)
(* JSON object (which begin with "{"), d being the dict json.loads makes   *)
(* of them.  str values are sequences of code points.                      *)
(***************************************************************************)
P2pInfo(ssid, psk, mac, port, id, key, catshare) ==
  [ssid |-> ssid, psk |-> psk, mac |-> mac, port |-> port, id |-> id,
   key |-> key, catshare |-> catshare]

\* (the whole value is taken as the JSON text)
JsonStartNoScan(value) == 0
\* value.find(b"{"), counted from 1: 0 when there is no "{"
JsonStart(value) ==
  LET opens(i) == "object" \in DOMAIN value[i] \/ value[i] = [byte |-> 123]
      found == {i \in 1..Len(value) : opens(i)}
  IN IF found = {} THEN 0 ELSE CHOOSE i \in found : \A j \in found : i <= j

\* P2pInfo.from_json(value.decode("utf-8")): the P2pInfo, or the exception
P2pInfo_from_json(value) ==
  LET bytes == [i \in 1..Len(value) |->
                  IF "object" \in DOMAIN value[i] THEN 123 ELSE value[i].byte]
      blank(i) ==
        "byte" \in DOMAIN value[i] /\ value[i].byte \in {9, 10, 13, 32}
      objects == {i \in 1..Len(value) : "object" \in DOMAIN value[i]}
      d == value[CHOOSE i \in objects : TRUE].object
  IN IF IsNone(Utf8Decode(bytes))
     THEN [ret |-> None, raised |-> Some("UnicodeDecodeError")]
     ELSE IF ~(/\ Cardinality(objects) = 1
               /\ \A i \in 1..Len(value) : i \in objects \/ blank(i))
     THEN [ret |-> None, raised |-> Some("JSONDecodeError")]
     ELSE IF ~({"ssid", "psk", "mac", "port"} \subseteq DOMAIN d)
     THEN [ret |-> None, raised |-> Some("KeyError")]
     ELSE [ret |-> Some(P2pInfo(d["ssid"], d["psk"], d["mac"], d["port"],
                                GetOpt(d, "id"), GetOpt(d, "key"),
                                GetOpt(d, "catShare"))),
           raised |-> None]

\* the P2pInfo of on_write's `if p2p.key:` block with the fields named
\* decrypted under the cipher derived from p2p.key, or the exception
DecryptFields(private_key, p2p, fields) ==
  LET cipher == DeriveSessionCipher("mtapy/crypto.py", private_key,
                                    Val(p2p.key))
      plain(f) == IF f \in fields THEN CipherDecrypt(Val(cipher.ret), p2p[f])
                  ELSE [ret |-> Some(p2p[f]), raised |-> None]
      failed == SelectSeq(<<"ssid", "psk", "mac">>,
                          LAMBDA f : ~IsNone(plain(f).raised))
  IN IF ~IsNone(cipher.raised) THEN [ret |-> None, raised |-> cipher.raised]
     ELSE IF failed # <<>>
     THEN [ret |-> None, raised |-> plain(failed[1]).raised]
     ELSE [ret |-> Some(P2pInfo(Val(plain("ssid").ret), Val(plain("psk").ret),
                                Val(plain("mac").ret), p2p.port, p2p.id,
                                None, None)),
           raised |-> None]

\* (the mac is taken as written)
DecryptCredentialsButMac(private_key, p2p) ==
  DecryptFields(private_key, p2p, {"ssid", "psk"})
\* on_write, lines 138-147: every credential decrypted by itself
DecryptCredentials(private_key, p2p) ==
  DecryptFields(private_key, p2p, {"ssid", "psk", "mac"})

\* on_write(uuid, value) up to the P2pInfo it would resolve p2p_received
\* with, or the exception it raises; private_key is that of self.crypto
OnWrite(private_key, value) ==
  LET json_start == JsonStart(value)
      raw_json == IF json_start = 0 THEN value
                  ELSE SubSeq(value, json_start, Len(value))
      p2p == P2pInfo_from_json(raw_json)
  IN IF ~IsNone(p2p.raised) THEN p2p
     ELSE IF ~IsNone(Val(p2p.ret).key) /\ Val(Val(p2p.ret).key) # <<>>
     THEN DecryptCredentials(private_key, Val(p2p.ret))
     ELSE p2p

(***************************************************************************)
(* transport.py: MTAReceiver.listen and MTAReceiver.receive_from, one      *)
(* operation per behaviour, interleaved with its environment (the peer on  *)
(* the WebSocket, the GATT client, the passing of time).                   *)
(*   driver  the coroutine: where it is (pc), the arguments it was given   *)
(*           (cfg), its locals, how it ended (outcome)                     *)
(*   net     the WebSocket: its state (ws), the texts the peer has sent    *)
(*           (arrived), those not yet taken by `async for` (inbox), and    *)
(*           whether the timeout of the stage awaited has passed (expired) *)
(*   ble     the BLE provider: GATT server up, advertising, whether a      *)
(*           write was answered with an error, and the future p2p_received *)
(*   log     what the coroutine has done, in order                         *)
(*   output_dir  the files of the output directory                         *)
(* receiver is the ReceiverProtocol that receive_from constructs.          *)
(***************************************************************************)
\* the variables no MTAReceiver operation touches
objectVars == <<under_test, observe, sender, pre, last, rtrace, strace>>

\* the texts a peer may send
TransportFrames ==
  {Serialize(WSMessage("action", 0, "versionNegotiation",
                       Some([version |-> 1, versions |-> <<1>>]))),
   Serialize(WSMessage("action", 1, "sendRequest", Some(FileRequest))),
   Serialize(WSMessage("action", 1, "sendRequest", Some(TextRequest))),
   Serialize(WSMessage("action", 1, "sendRequest", None)),
   Serialize(WSMessage("action", 2, "status",
                       Some([taskId |-> "555", type |-> 3,
                             reason |-> "user refuse"]))),
   Serialize(WSMessage("ack", 100, "status", None)),
   <<"hello">>}

\* the credentials of a sender's hotspot: "DIRECT-ab", "12345678",
\* "192.168.49.1", and the id "1"
P2pWritten ==
  P2pInfo(<<68, 73, 82, 69, 67, 84, 45, 97, 98>>,
          <<49, 50, 51, 52, 53, 54, 55, 56>>,
          <<49, 57, 50, 46, 49, 54, 56, 46, 52, 57, 46, 49>>,
          8443, Some(<<49>>), None, None)

\* P2pInfo.to_json() of the credentials as they are, as a dict
P2pPlain ==
  [ssid |-> P2pWritten.ssid, psk |-> P2pWritten.psk, mac |-> P2pWritten.mac,
   port |-> P2pWritten.port, id |-> P2pWritten.id]

\* the same from a sender with the given private key who encrypts for the
\* holder of the private key `to`, as a dict
P2pSealed(private_key, to) ==
  LET cipher == Val(DeriveSessionCipher("crypto.py", private_key,
                                        GetPublicKey(to)).ret)
  IN [ssid |-> CipherEncrypt(cipher, P2pWritten.ssid),
      psk |-> CipherEncrypt(cipher, P2pWritten.psk),
      mac |-> CipherEncrypt(cipher, P2pWritten.mac),
      port |-> P2pWritten.port, id |-> P2pWritten.id,
      key |-> Some(GetPublicKey(private_key))]

\* the bytes b as a written value
Bytes(b) == [i \in 1..Len(b) |-> [byte |-> b[i]]]

\* the values written during one listen whose crypto provider holds
\* private key 3: plain credentials, encrypted ones after a preamble, and
\* encrypted ones whose psk lost its first character
ListenWrites ==
  {<<[object |-> P2pPlain]>>,
   Bytes(<<0, 18>>) \o <<[object |-> P2pSealed(2, 3)]>>,
   <<[object |-> [P2pSealed(2, 3) EXCEPT !.psk = Tail(@)]]>>}

\* what on_write makes of them
ListenOutcomes == {OnWrite(3, value) : value \in ListenWrites}

\* (a handler that resolves p2p_received again with every P2pInfo)
GattWriteLatest(b, res) ==
  IF ~IsNone(res.raised) THEN [b EXCEPT !.write_error = TRUE]
  ELSE [b EXCEPT !.p2p_received = [done |-> TRUE, result |-> res.ret]]
\* handle_write of the BLE driver around on_write: an exception is printed
\* and answered with an error, a P2pInfo resolves p2p_received unless done
GattWrite(b, res) ==
  IF ~IsNone(res.raised) THEN [b EXCEPT !.write_error = TRUE]
  ELSE IF ~b.p2p_received.done
  THEN [b EXCEPT !.p2p_received = [done |-> TRUE, result |-> res.ret]]
  ELSE b

\* the arguments of MTAReceiver(...) and of the operation called: which
\* operation, how a request is decided (auto_accept, the on_request
\* callback, or neither), whether on_text and on_p2p are given
TransportConfigs ==
  {c \in [entry : {"listen", "receive_from"},
          accept : {"auto_accept", "on_request", "neither"},
          on_text : BOOLEAN,
          on_p2p : BOOLEAN] :
     c.entry = "receive_from" => ~c.on_p2p}

InitTransport ==
  /\ under_test = "MTAReceiver"
  /\ observe = "wire"
  /\ receiver = ReceiverInit("", 0)
  /\ sender = SenderInit("MTA Device", "abcd", "100000")
  /\ pre = receiver
  /\ last = NoCall
  /\ rtrace = <<>>
  /\ strace = <<>>
  /\ emitted = <<>>
  /\ \E c \in TransportConfigs :
       driver = [pc |-> IF c.entry = "listen" THEN "setup_gatt_server"
                        ELSE "receive_from",
                 cfg |-> c,
                 host |-> P2pWritten.mac,
                 port |-> P2pWritten.port,
                 protocol_made |-> FALSE,
                 pairs |-> <<>>,
                 cur |-> <<None, None>>,
                 accept_event |-> None,
                 received_files |-> <<>>,
                 outcome |-> None]
  /\ net = [ws |-> "none", arrived |-> <<>>, inbox |-> <<>>,
            expired |-> FALSE]
  /\ ble = [gatt |-> FALSE, advertising |-> FALSE,
            p2p_received |-> [done |-> FALSE, result |-> None],
            write_error |-> FALSE]
  /\ log = <<>>
  /\ output_dir = <<>>

At(pc) == under_test = "MTAReceiver" /\ driver.pc = pc

Logged(what, arg) == Append(log, [what |-> what, arg |-> arg])

\* (receive_from ends the coroutine, with no finally clause after it)
AfterReceiveFromNoFinally == "done"
\* where the coroutine goes when receive_from has ended
AfterReceiveFrom ==
  IF driver.cfg.entry = "listen" THEN "finally_stop_advertising" ELSE "done"

\* the body of `async with` ends, by return or by an exception
LeaveWs(d, outcome) == [d EXCEPT !.pc = "ws_close", !.outcome = Some(outcome)]

(***************************************************************************)
(* The environment.                                                        *)
(***************************************************************************)
\* the timeout of the stage the coroutine is waiting in passes
E_timeout_passes ==
  /\ \/ At("wait_p2p")
     \/ At("connect")
     \/ At("recv")
     \/ At("download")
  /\ ~net.expired
  /\ net' = [net EXCEPT !.expired = TRUE]
  /\ UNCHANGED <<driver, ble, log, receiver, emitted, output_dir, objectVars>>

\* on_write: a sender writes a value to the P2P characteristic
E_on_write ==
  /\ under_test = "MTAReceiver"
  /\ ble.gatt
  /\ \E res \in ListenOutcomes : ble' = GattWrite(ble, res)
  /\ UNCHANGED <<driver, net, log, receiver, emitted, output_dir, objectVars>>

\* the peer sends a text on the WebSocket
E_peer_sends ==
  /\ under_test = "MTAReceiver"
  /\ net.ws = "open"
  /\ Len(net.arrived) < MaxArrivals
  /\ \E text \in TransportFrames :
       net' = [net EXCEPT !.arrived = Append(@, text),
                          !.inbox = Append(@, text)]
  /\ UNCHANGED <<driver, ble, log, receiver, emitted, output_dir, objectVars>>

\* the peer closes the WebSocket
E_peer_closes ==
  /\ under_test = "MTAReceiver"
  /\ net.ws = "open"
  /\ net' = [net EXCEPT !.ws = "peer_closed"]
  /\ UNCHANGED <<driver, ble, log, receiver, emitted, output_dir, objectVars>>

(***************************************************************************)
(* MTAReceiver.listen                                                      *)
(***************************************************************************)
D_setup_gatt_server ==
  /\ At("setup_gatt_server")
  /\ ble' = [ble EXCEPT !.gatt = TRUE]
  /\ driver' = [driver EXCEPT !.pc = "start_advertising"]
  /\ log' = Logged("setup_gatt_server", None)
  /\ UNCHANGED <<net, receiver, emitted, output_dir, objectVars>>

D_start_advertising ==
  /\ At("start_advertising")
  /\ ble' = [ble EXCEPT !.advertising = TRUE]
  /\ driver' = [driver EXCEPT !.pc = "wait_p2p"]
  /\ log' = Logged("start_advertising", None)
  /\ UNCHANGED <<net, receiver, emitted, output_dir, objectVars>>

\* asyncio.wait_for(p2p_received, timeout): the result, or TimeoutError
\* with the future cancelled
D_wait_p2p ==
  /\ At("wait_p2p")
  /\ \/ /\ ble.p2p_received.done
        /\ driver' = [driver EXCEPT
                        !.pc = "stop_advertising",
                        !.host = Val(ble.p2p_received.result).mac,
                        !.port = Val(ble.p2p_received.result).port]
        /\ UNCHANGED ble
     \/ /\ ~ble.p2p_received.done
        /\ net.expired
        /\ driver' = [driver EXCEPT !.pc = "finally_stop_advertising",
                                    !.outcome = Some("TimeoutError")]
        /\ ble' = [ble EXCEPT !.p2p_received =
                                [done |-> TRUE, result |-> None]]
  /\ UNCHANGED <<net, log, receiver, emitted, output_dir, objectVars>>

D_stop_advertising ==
  /\ At("stop_advertising")
  /\ ble' = [ble EXCEPT !.advertising = FALSE]
  /\ driver' = [driver EXCEPT !.pc = IF driver.cfg.on_p2p THEN "on_p2p"
                                     ELSE "receive_from"]
  /\ log' = Logged("stop_advertising", None)
  /\ UNCHANGED <<net, receiver, emitted, output_dir, objectVars>>

\* await on_p2p(p2p_info): the callback returns, or raises
D_on_p2p ==
  /\ At("on_p2p")
  /\ \/ driver' = [driver EXCEPT !.pc = "receive_from"]
     \/ driver' = [driver EXCEPT !.pc = "finally_stop_advertising",
                                 !.outcome = Some("CallbackError")]
  /\ log' = Logged("on_p2p", None)
  /\ UNCHANGED <<net, ble, receiver, emitted, output_dir, objectVars>>

D_finally_stop_advertising ==
  /\ At("finally_stop_advertising")
  /\ ble' = [ble EXCEPT !.advertising = FALSE]
  /\ driver' = [driver EXCEPT !.pc = "finally_stop_gatt_server"]
  /\ log' = Logged("stop_advertising", None)
  /\ UNCHANGED <<net, receiver, emitted, output_dir, objectVars>>

D_finally_stop_gatt_server ==
  /\ At("finally_stop_gatt_server")
  /\ ble' = [ble EXCEPT !.gatt = FALSE]
  /\ driver' = [driver EXCEPT !.pc = "done"]
  /\ log' = Logged("stop_gatt_server", None)
  /\ UNCHANGED <<net, receiver, emitted, output_dir, objectVars>>

(***************************************************************************)
(* MTAReceiver.receive_from                                                *)
(***************************************************************************)
\* protocol = ReceiverProtocol(host, port); the open_timeout starts
D_receive_from ==
  /\ At("receive_from")
  /\ receiver' = ReceiverInit(driver.host, driver.port)
  /\ driver' = [driver EXCEPT !.pc = "connect", !.protocol_made = TRUE]
  /\ net' = [net EXCEPT !.expired = FALSE]
  /\ UNCHANGED <<ble, log, emitted, output_dir, objectVars>>

\* websockets.connect(..., open_timeout=timeout): the connection opens, or
\* TimeoutError before `async with` is entered
D_connect ==
  /\ At("connect")
  /\ \/ /\ ~net.expired
        /\ net' = [net EXCEPT !.ws = "open"]
        /\ driver' = [driver EXCEPT !.pc = "recv"]
     \/ /\ net.expired
        /\ driver' = [driver EXCEPT !.pc = AfterReceiveFrom,
                                    !.outcome = Some("TimeoutError")]
        /\ UNCHANGED net
  /\ UNCHANGED <<ble, log, receiver, emitted, output_dir, objectVars>>

\* `async for raw_msg in ws`: the next text in arrival order, parsed and
\* given to protocol.on_ws_message; the loop ends when the peer has closed
D_recv ==
  /\ At("recv")
  /\ \/ /\ net.inbox # <<>>
        /\ net' = [net EXCEPT !.inbox = Tail(@)]
        /\ LET msg == Parse(Head(net.inbox))
           IN IF IsNone(msg)
              THEN UNCHANGED <<driver, receiver, log>>
              ELSE LET res == ReceiverOnWsMessage(receiver, Val(msg))
                   IN /\ receiver' = res.obj
                      /\ driver' = [driver EXCEPT !.pc = "next_pair",
                                                  !.pairs = res.yielded]
                      /\ log' = Logged("feed", Val(msg))
     \/ /\ net.inbox = <<>>
        /\ net.ws = "peer_closed"
        /\ driver' = LeaveWs(driver, "returned")
        /\ UNCHANGED <<net, receiver, log>>
  /\ UNCHANGED <<ble, emitted, output_dir, objectVars>>

\* (the response of a pair is never sent)
AfterDeliveryNoSend(pair) == "handle_event"
\* the loop body begins: `if response: await ws.send(...)`, then the event
AfterDelivery(pair) ==
  IF ~IsNone(pair[2]) THEN "send_response" ELSE "handle_event"

\* `for event, response in protocol.on_ws_message(msg)`
D_next_pair ==
  /\ At("next_pair")
  /\ driver' = IF driver.pairs = <<>>
               THEN [driver EXCEPT !.pc = "recv"]
               ELSE [driver EXCEPT !.pc = AfterDelivery(Head(driver.pairs)),
                                   !.cur = Head(driver.pairs),
                                   !.pairs = Tail(driver.pairs)]
  /\ UNCHANGED <<net, ble, log, receiver, emitted, output_dir, objectVars>>

\* await ws.send(text): sent, or ConnectionClosed when the peer has closed
WsSend(text, then) ==
  IF net.ws = "open"
  THEN /\ log' = Logged("send", text)
       /\ driver' = then
  ELSE /\ log' = log
       /\ driver' = LeaveWs(driver, "ConnectionClosed")

D_send_response ==
  /\ At("send_response")
  /\ WsSend(Serialize(Val(driver.cur[2])),
            [driver EXCEPT !.pc = "handle_event"])
  /\ UNCHANGED <<net, ble, receiver, emitted, output_dir, objectVars>>

\* (a chain that accepts a request when nothing decides on it)
EventBranchAcceptByDefault(event) ==
  IF IsNone(event) THEN "next_pair"
  ELSE CASE Val(event).kind = "TextReceived" ->
              IF driver.cfg.on_text THEN "on_text" ELSE "send_ok"
         [] Val(event).kind = "SendRequestReceived" ->
              IF driver.cfg.accept = "on_request" THEN "on_request"
              ELSE "accept_transfer"
         [] Val(event).kind = "StatusReceived" ->
              IF Val(event).status.type = 3 THEN "return" ELSE "next_pair"
         [] OTHER -> "next_pair"
\* the isinstance chain on the event
EventBranch(event) ==
  IF IsNone(event) THEN "next_pair"
  ELSE CASE Val(event).kind = "TextReceived" ->
              IF driver.cfg.on_text THEN "on_text" ELSE "send_ok"
         [] Val(event).kind = "SendRequestReceived" ->
              IF driver.cfg.accept = "auto_accept" THEN "accept_transfer"
              ELSE IF driver.cfg.accept = "on_request" THEN "on_request"
              ELSE "reject_transfer"
         [] Val(event).kind = "StatusReceived" ->
              IF Val(event).status.type = 3 THEN "return" ELSE "next_pair"
         [] OTHER -> "next_pair"

D_handle_event ==
  /\ At("handle_event")
  /\ LET event == driver.cur[1]
         to == EventBranch(event)
     IN /\ driver' = IF to = "return" THEN LeaveWs(driver, "returned")
                     ELSE [driver EXCEPT !.pc = to]
        /\ log' = IF IsNone(event) THEN log
                  ELSE Logged("event", Val(event).kind)
  /\ UNCHANGED <<net, ble, receiver, emitted, output_dir, objectVars>>

D_on_text ==
  /\ At("on_text")
  /\ driver' = [driver EXCEPT !.pc = "send_ok"]
  /\ log' = Logged("on_text", Val(driver.cur[1]).text)
  /\ UNCHANGED <<net, ble, receiver, emitted, output_dir, objectVars>>

\* accepted = await self.on_request(event.request)
D_on_request ==
  /\ At("on_request")
  /\ \E accepted \in BOOLEAN :
       /\ driver' = [driver EXCEPT !.pc = IF accepted THEN "accept_transfer"
                                          ELSE "reject_transfer"]
       /\ log' = Logged("on_request", accepted)
  /\ UNCHANGED <<net, ble, receiver, emitted, output_dir, objectVars>>

D_accept_transfer ==
  /\ At("accept_transfer")
  /\ LET res == ReceiverAcceptTransfer(receiver)
     IN /\ receiver' = res.obj
        /\ driver' = IF ~IsNone(res.ret[1])
                     THEN [driver EXCEPT !.pc = "download",
                                         !.accept_event = res.ret[1]]
                     ELSE [driver EXCEPT !.pc = "next_pair"]
  /\ UNCHANGED <<net, ble, log, emitted, output_dir, objectVars>>

\* await self._download_files(url, ssl_context): the files, or the error
\* urlopen raised
D_download ==
  /\ At("download")
  /\ LET download_url == Val(driver.accept_event).download_url
     IN \/ /\ driver' = [driver EXCEPT
                           !.pc = "send_ok",
                           !.received_files = <<"a.jpg", "b.jpg">>]
           /\ log' = Logged("download",
                            [url |-> download_url, raised |-> None])
        \/ /\ driver' = LeaveWs(driver, "URLError")
           /\ log' = Logged("download",
                            [url |-> download_url,
                             raised |-> Some("URLError")])
  /\ UNCHANGED <<net, ble, receiver, emitted, output_dir, objectVars>>

\* ok_msg = protocol.send_ok(); await ws.send(ok_msg.serialize()); then
\* `return []` for a text share, the sleep otherwise
D_send_ok ==
  /\ At("send_ok")
  /\ LET res == ReceiverSendOk(receiver)
     IN /\ receiver' = res.obj
        /\ emitted' = emitted \o FrameIds(<<res.ret>>)
        /\ WsSend(Serialize(res.ret),
                  IF Val(driver.cur[1]).kind = "TextReceived"
                  THEN LeaveWs(driver, "returned")
                  ELSE [driver EXCEPT !.pc = "sleep"])
  /\ UNCHANGED <<net, ble, output_dir, objectVars>>

\* await asyncio.sleep(1); return received_files
D_sleep ==
  /\ At("sleep")
  /\ driver' = LeaveWs(driver, "returned")
  /\ UNCHANGED <<net, ble, log, receiver, emitted, output_dir, objectVars>>

\* reject_msg = protocol.reject_transfer(); await ws.send(...); return []
D_reject_transfer ==
  /\ At("reject_transfer")
  /\ LET res == ReceiverRejectTransfer(receiver)
     IN /\ receiver' = res.obj
        /\ emitted' = emitted \o FrameIds(<<res.ret>>)
        /\ WsSend(Serialize(res.ret), LeaveWs(driver, "returned"))
  /\ UNCHANGED <<net, ble, output_dir, objectVars>>

\* `async with` exits: the connection is closed
D_ws_close ==
  /\ At("ws_close")
  /\ net' = [net EXCEPT !.ws = "closed"]
  /\ driver' = [driver EXCEPT !.pc = AfterReceiveFrom]
  /\ log' = Logged("ws_close", None)
  /\ UNCHANGED <<ble, receiver, emitted, output_dir, objectVars>>

NextTransport ==
  \/ E_timeout_passes
  \/ E_on_write
  \/ E_peer_sends
  \/ E_peer_closes
  \/ D_setup_gatt_server
  \/ D_start_advertising
  \/ D_wait_p2p
  \/ D_stop_advertising
  \/ D_on_p2p
  \/ D_finally_stop_advertising
  \/ D_finally_stop_gatt_server
  \/ D_receive_from
  \/ D_connect
  \/ D_recv
  \/ D_next_pair
  \/ D_send_response
  \/ D_handle_event
  \/ D_on_text
  \/ D_on_request
  \/ D_accept_transfer
  \/ D_download
  \/ D_send_ok
  \/ D_sleep
  \/ D_reject_transfer
  \/ D_ws_close

\* every run of one MTAReceiver.listen or MTAReceiver.receive_from call
SpecTransport == InitTransport /\ [][NextTransport]_vars

(***************************************************************************)
(* C19. When listen or receive_from has ended because its timeout expired  *)
(* (waiting for credentials, in the WebSocket handshake, waiting for       *)
(* frames or in the download), the session is Failed, a ProtocolError      *)
(* event was emitted, the WebSocket is closed and the BLE resources are    *)
(* released, the event coming before the close and the releases.           *)
(***************************************************************************)
TimedOut ==
  /\ driver.pc = "done"
  /\ driver.outcome = Some("TimeoutError")

\* the positions of the log where this was done
Positions(what) == {i \in DOMAIN log : log[i].what = what}

C19_TimeoutHonoured ==
  TimedOut =>
    /\ driver.protocol_made
    /\ receiver.state = "FAILED"
    /\ \E i \in Positions("event") :
         /\ log[i].arg = "ProtocolError"
         /\ \A j \in Positions("ws_close") \cup Positions("stop_gatt_server") :
              i < j
    /\ net.ws \in {"none", "closed"}
    /\ ~ble.advertising
    /\ ~ble.gatt

(***************************************************************************)
(* C20. receive_from gives the inbound messages to the state machine in    *)
(* the order they arrived, and what one message makes it send (the ack,    *)
(* then the status frame the message triggers, if any) is sent before the  *)
(* next message is given to the state machine.                             *)
(***************************************************************************)
IsFeed(e) == e.what = "feed"
IsFeedOrSend(e) == e.what \in {"feed", "send"}

\* the feeds and sends of the log, in order
Wire == SelectSeq(log, IsFeedOrSend)

\* the messages given to the state machine, in order
Feeds ==
  LET f == SelectSeq(log, IsFeed) IN [i \in 1..Len(f) |-> f[i].arg]

\* the messages among these texts that parse, in order
RECURSIVE Parseable(_)
Parseable(texts) ==
  IF texts = <<>> THEN <<>>
  ELSE (IF IsNone(Parse(Head(texts))) THEN <<>>
        ELSE <<Val(Parse(Head(texts)))>>)
       \o Parseable(Tail(texts))

\* the texts `async for` has taken
Taken == SubSeq(net.arrived, 1, Len(net.arrived) - Len(net.inbox))

\* the position in Wire of the feed after position i, past the end if none
NextFeed(i) ==
  IF \E j \in (i + 1)..Len(Wire) : IsFeed(Wire[j])
  THEN CHOOSE j \in (i + 1)..Len(Wire) :
         /\ IsFeed(Wire[j])
         /\ \A k \in (i + 1)..(j - 1) : ~IsFeed(Wire[k])
  ELSE Len(Wire) + 1

\* the texts sent after the feed at position i and before the next feed
SentFor(i) ==
  LET seg == SubSeq(Wire, i + 1, NextFeed(i) - 1)
  IN [k \in 1..Len(seg) |-> seg[k].arg]

\* the feed at position i is over: another message was fed, or the loop is
\* waiting for one, or receive_from has returned
Over(i) ==
  \/ NextFeed(i) <= Len(Wire)
  \/ driver.pc = "recv"
  \/ driver.outcome = Some("returned")

IsAckOf(text, msg) ==
  /\ text[1] = WS_TYPE_ACK
  /\ text[3] = msg.id
  /\ text[5] = msg.name

IsStatusFrame(text) ==
  /\ text[1] = WS_TYPE_ACTION
  /\ text[5] = WS_ACTION_STATUS

C20_InOrderAndAtomic ==
  under_test = "MTAReceiver" =>
    /\ Feeds = Parseable(Taken)
    /\ Wire # <<>> => IsFeed(Wire[1])
    /\ \A i \in 1..Len(Wire) :
         IsFeed(Wire[i]) =>
           LET msg == Wire[i].arg
               sent == SentFor(i)
           IN /\ msg.type # WS_TYPE_ACTION => sent = <<>>
              /\ (msg.type = WS_TYPE_ACTION /\ Over(i)) => sent # <<>>
              /\ sent # <<>> => IsAckOf(sent[1], msg)
              /\ Len(sent) <= 2
              /\ Len(sent) = 2 =>
                   /\ IsStatusFrame(sent[2])
                   /\ NextFeed(i) > Len(Wire)

C20_Witness ==
  /\ under_test = "MTAReceiver"
  /\ driver.outcome = Some("returned")
  /\ Len(Wire) = 5
  /\ [i \in 1..5 |-> Wire[i].what] =
       <<"feed", "send", "feed", "send", "send">>
  /\ Wire[1].arg.name = "versionNegotiation"
  /\ Wire[3].arg.name = "sendRequest"
  /\ IsAckOf(Wire[4].arg, Wire[3].arg)
  /\ IsStatusFrame(Wire[5].arg)
  /\ Wire[5].arg[3] = 100
  /\ Positions("download") # {}

(***************************************************************************)
(* C21: if decrypting the credentials written to the P2P characteristic    *)
(* fails, the session fails before any Wi-Fi attempt: listen terminates    *)
(* with an error, and neither on_p2p nor receive_from is invoked.  As a    *)
(* step property: a listen that is waiting for credentials after a write   *)
(* failed does not receive credentials and go on to the transfer.          *)
(***************************************************************************)
C21_DecryptFailureFailsListen ==
  [][(At("wait_p2p") /\ ble.write_error)
       => driver'.pc # "stop_advertising"]_vars

(***************************************************************************)
(* The GATT write handler by itself: a listen whose crypto provider holds  *)
(* any private key, and the writes of any values that arrive while it      *)
(* waits for credentials.  pre is the BLE state before the last write and  *)
(* last the call on_write(uuid, value) with what it decoded or raised.     *)
(***************************************************************************)
PrivateKeys == 1..MaxPrivate

\* the protocol objects, which the operations below do not use
idleVars == <<receiver, sender, rtrace, strace, emitted>>

ObjectsIdle ==
  /\ receiver = ReceiverInit("", 0)
  /\ sender = SenderInit("MTA Device", "abcd", "100000")
  /\ rtrace = <<>>
  /\ strace = <<>>
  /\ emitted = <<>>

\* d with d[k] = v
With(d, k, v) == [x \in DOMAIN d \cup {k} |-> IF x = k THEN v ELSE d[x]]

\* the dicts of the JSON objects written to a receiver whose private key
\* is `to`: plain credentials, with key null, empty, not a public key, or
\* a public key over plain fields; credentials encrypted for the receiver,
\* with one field left plain or damaged, or encrypted for someone else
P2pObjects(to) ==
  {P2pPlain,
   With(P2pPlain, "key", None),
   With(P2pPlain, "key", Some(<<>>)),
   With(P2pPlain, "key", Some(<<33, 33>>)),
   With(P2pPlain, "key", Some(GetPublicKey(1))),
   With(P2pPlain, "catShare", Some(1)),
   [k \in {"ssid", "psk", "port"} |-> P2pPlain[k]],
   [k \in {"ssid", "psk", "mac", "port"} |-> P2pPlain[k]]}
  \cup {P2pSealed(s, to) : s \in PrivateKeys}
  \cup {[P2pSealed(s, to) EXCEPT !.mac = P2pPlain.mac] : s \in PrivateKeys}
  \cup {[P2pSealed(s, to) EXCEPT !.psk = Tail(@)] : s \in PrivateKeys}
  \cup {P2pSealed(s, other) : s \in PrivateKeys,
                              other \in PrivateKeys \ {to}}

\* the bytes before the JSON object: none, binary ones, blanks, a "{"
Preambles == {<<>>, <<0>>, <<255, 18>>, <<32>>, <<123>>}

\* the bytes after it: none, a line feed, a NUL
Trailers == {<<>>, <<10>>, <<0>>}

WrittenValues(to) ==
  {Bytes(b) \o <<[object |-> d]>> \o Bytes(t) :
     b \in Preambles, d \in P2pObjects(to), t \in Trailers}
  \cup {Bytes(<<>>), Bytes(<<49>>), Bytes(<<123, 125>>), Bytes(<<255>>)}

InitOnWrite ==
  /\ under_test = "on_write"
  /\ observe = "calls"
  /\ ObjectsIdle
  /\ \E k \in PrivateKeys : driver = [pc |-> "wait_p2p", crypto |-> k]
  /\ net = [ws |-> "none"]
  /\ ble = [gatt |-> TRUE, advertising |-> TRUE,
            p2p_received |-> [done |-> FALSE, result |-> None],
            write_error |-> FALSE]
  /\ pre = ble
  /\ last = NoCall
  /\ log = <<>>
  /\ output_dir = <<>>

\* on_write applied by each receiver to each value written to it
WriteOutcomes ==
  [k \in PrivateKeys |->
     {[value |-> value, res |-> OnWrite(k, value)] :
        value \in WrittenValues(k)}]

G_on_write ==
  /\ under_test = "on_write"
  /\ ~ble.p2p_received.done
  /\ \E w \in WriteOutcomes[driver.crypto] :
       /\ ble' = GattWrite(ble, w.res)
       /\ pre' = ble
       /\ last' = Call("on_write", Some(w.value), <<>>, w.res.ret,
                       w.res.raised)
  /\ UNCHANGED <<under_test, observe, driver, net, log, output_dir, idleVars>>

SpecOnWrite == InitOnWrite /\ [][G_on_write]_vars

(***************************************************************************)
(* C22: when the GATT write handler decodes a P2pInfo, it decrypts ssid,   *)
(* psk and mac, each by itself with the session cipher derived from the    *)
(* written key, if and only if the P2pInfo carries a key; without a key    *)
(* the three fields are taken verbatim; port and id are never decrypted.   *)
(***************************************************************************)
\* the last write made on_write decode a P2pInfo
OnWriteDecoded ==
  /\ under_test = "on_write"
  /\ last.op = "on_write"
  /\ IsNone(last.raised)

\* the dict of the JSON object of the value last written
WrittenDict ==
  LET value == Val(last.msg)
  IN value[CHOOSE i \in 1..Len(value) : "object" \in DOMAIN value[i]].object

KeyCarried(d) == "key" \in DOMAIN d /\ ~IsNone(d["key"])

KeyNotEmpty(d) == KeyCarried(d) /\ Val(d["key"]) # <<>>

\* the decoded P2pInfo has each credential of d decrypted by itself
EachDecrypted(d, out) ==
  LET cipher == DeriveSessionCipher("mtapy/crypto.py", driver.crypto,
                                    Val(d["key"]))
  IN /\ IsNone(cipher.raised)
     /\ \A f \in {"ssid", "psk", "mac"} :
          CipherDecrypt(Val(cipher.ret), d[f]).ret = Some(out[f])

\* the decoded P2pInfo is decrypted exactly when Keyed holds of the dict
DecryptsIff(Keyed(_)) ==
  OnWriteDecoded =>
    LET d == WrittenDict
        out == Val(last.ret)
    IN /\ out.port = d["port"]
       /\ out.id = GetOpt(d, "id")
       /\ IF Keyed(d) THEN EachDecrypted(d, out)
          ELSE \A f \in {"ssid", "psk", "mac"} : out[f] = d[f]

PreambleThenObject(n) ==
  /\ under_test = "on_write"
  /\ last.op = "on_write"
  /\ LET value == Val(last.msg)
     IN /\ Len(value) = n + 1
        /\ "object" \in DOMAIN value[n + 1]
        /\ \A i \in 1..n : "byte" \in DOMAIN value[i] /\ value[i].byte # 123

C23_PreambleIgnored ==
  \A n \in 0..2 :
    PreambleThenObject(n) =>
      LET alone == OnWrite(driver.crypto, <<Val(last.msg)[n + 1]>>)
      IN last.ret = alone.ret /\ last.raised = alone.raised

C23_Witness ==
  /\ PreambleThenObject(2)
  /\ Val(last.msg)[1].byte = 255
  /\ KeyNotEmpty(WrittenDict)
  /\ last.ret = Some(P2pWritten)
  /\ ble.p2p_received.result = Some(P2pWritten)

(***************************************************************************)
(* drivers/bleak_driver.py, drivers/macos.py: one start_scan of either     *)
(* provider.  ble holds whether the scanner runs, the set seen_devices of  *)
(* the call and the tasks created and not yet run; log lists, in order,    *)
(* the advertisements reported and the calls of on_device_found.           *)
(* Advertisements carry no scan response in their service data.            *)
(***************************************************************************)
DiscoveredDevice(address, name, rssi, supports_5ghz) ==
  [address |-> address, name |-> name, rssi |-> rssi,
   supports_5ghz |-> supports_5ghz]

\* what the scanner may report: the device (address, name) and the
\* advertisement data (service_uuids, rssi); one device has no name and
\* no rssi
Advertisements ==
  {[address |-> d[1], name |-> d[2], service_uuids |-> u, rssi |-> d[3]] :
     d \in {<<"AA:01", None, 0>>, <<"AA:02", Some("Phone"), -60>>},
     u \in {<<>>, <<ADV_SERVICE_UUID>>,
            <<"00009955-0000-1000-8000-00805f9b34fb">>,
            <<"00009955-0000-1000-8000-00805f9b34fb", ADV_SERVICE_UUID>>}}

\* x in list
InList(x, list) == \E i \in 1..Len(list) : list[i] = x

\* (every advertisement of the service is reported)
DetectionCallbackNoDedup(seen_devices, adv) ==
  IF ~InList(ADV_SERVICE_UUID, adv.service_uuids)
  THEN [seen_devices |-> seen_devices, found |-> None]
  ELSE [seen_devices |-> seen_devices \cup {adv.address},
        found |-> Some(DiscoveredDevice(
                         adv.address,
                         IF IsNone(adv.name) THEN "Unknown" ELSE Val(adv.name),
                         IF adv.rssi = 0 THEN -100 ELSE adv.rssi, TRUE))]
\* detection_callback(device, adv_data): seen_devices after it and the
\* DiscoveredDevice it creates a task for, if any
DetectionCallback(seen_devices, adv) ==
  IF ~InList(ADV_SERVICE_UUID, adv.service_uuids)
  THEN [seen_devices |-> seen_devices, found |-> None]
  ELSE IF adv.address \in seen_devices
  THEN [seen_devices |-> seen_devices, found |-> None]
  ELSE [seen_devices |-> seen_devices \cup {adv.address},
        found |-> Some(DiscoveredDevice(
                         adv.address,
                         IF IsNone(adv.name) THEN "Unknown" ELSE Val(adv.name),
                         IF adv.rssi = 0 THEN -100 ELSE adv.rssi, TRUE))]

InitScan ==
  /\ under_test \in {"BleakBLEProvider", "CoreBluetoothBLEProvider"}
  /\ observe = "calls"
  /\ ObjectsIdle
  /\ driver = [pc |-> "sleep"]
  /\ net = [ws |-> "none"]
  /\ ble = [scanning |-> TRUE, seen_devices |-> {}, tasks |-> <<>>]
  /\ pre = None
  /\ last = NoCall
  /\ log = <<>>
  /\ output_dir = <<>>

Scanning == under_test \in {"BleakBLEProvider", "CoreBluetoothBLEProvider"}

\* the advertisements reported so far
Reported == SelectSeq(log, LAMBDA e : e.what = "advertisement")

\* the scanner reports an advertisement
B_detection_callback ==
  /\ Scanning
  /\ ble.scanning
  /\ Len(Reported) < MaxAdverts
  /\ \E adv \in Advertisements :
       LET res == DetectionCallback(ble.seen_devices, adv)
       IN /\ ble' = [ble EXCEPT
                       !.seen_devices = res.seen_devices,
                       !.tasks = IF IsNone(res.found) THEN @
                                 ELSE Append(@, Val(res.found))]
          /\ log' = Append(log, [what |-> "advertisement", arg |-> adv])
  /\ UNCHANGED <<under_test, observe, driver, net, pre, last, output_dir,
                 idleVars>>

\* the event loop runs the oldest task: on_device_found(discovered)
B_on_device_found ==
  /\ Scanning
  /\ ble.tasks # <<>>
  /\ ble' = [ble EXCEPT !.tasks = Tail(@)]
  /\ log' = Append(log, [what |-> "on_device_found", arg |-> Head(ble.tasks)])
  /\ UNCHANGED <<under_test, observe, driver, net, pre, last, output_dir,
                 idleVars>>

\* asyncio.sleep(timeout) ends and the scanner is stopped
B_stop_scan ==
  /\ Scanning
  /\ driver.pc = "sleep"
  /\ driver' = [pc |-> "done"]
  /\ ble' = [ble EXCEPT !.scanning = FALSE]
  /\ UNCHANGED <<under_test, observe, net, pre, last, log, output_dir,
                 idleVars>>

NextScan == B_detection_callback \/ B_on_device_found \/ B_stop_scan

SpecScan == InitScan /\ [][NextScan]_vars

(***************************************************************************)
(* C24: during one start_scan, on_device_found is invoked at most once per *)
(* device address, and only for advertisements whose service-UUID list     *)
(* contains 00003331-0000-1000-8000-008123456789, however many             *)
(* advertisements arrive and in whatever order.                            *)
(***************************************************************************)
\* the places in log of the calls of on_device_found
FoundAt == {i \in 1..Len(log) : log[i].what = "on_device_found"}

C24_OncePerAddress ==
  Scanning =>
    /\ \A i, j \in FoundAt :
         log[i].arg.address = log[j].arg.address => i = j
    /\ \A j \in FoundAt :
         \E i \in 1..(j - 1) :
           /\ log[i].what = "advertisement"
           /\ log[i].arg.address = log[j].arg.address
           /\ InList("00003331-0000-1000-8000-008123456789",
                     log[i].arg.service_uuids)

C24_Witness ==
  /\ Scanning
  /\ Len(Reported) = 3
  /\ Reported[1].arg.address = Reported[3].arg.address
  /\ \A i \in {1, 3} : InList(ADV_SERVICE_UUID, Reported[i].arg.service_uuids)
  /\ Reported[2].arg.address # Reported[1].arg.address
  /\ Reported[2].arg.service_uuids = <<"00009955-0000-1000-8000-00805f9b34fb">>
  /\ Cardinality(FoundAt) = 1
  /\ ble.tasks = <<>>
  /\ ~ble.scanning

(***************************************************************************)
(* transport.py: _download_files and extract_zip_stream.  A file name is   *)
(* the sequence of its characters; output_dir maps the names of the files  *)
(* in the output directory to their contents, "old" for a file that was    *)
(* there before, the entry's data for one written, "" for one created and  *)
(* not written.  An entry of the archive has its filename, its data and    *)
(* where reading it fails: nowhere, in zf.open(info) or in src.read().     *)
(***************************************************************************)
ReceivedFile(name, path, size) == [name |-> name, path |-> path, size |-> size]

\* the places of character c in name
Places(c, name) == {i \in 1..Len(name) : name[i] = c}

\* max of a non-empty set of integers
Highest(S) == CHOOSE i \in S : \A j \in S : j <= i

\* ZipInfo.is_dir()
IsDir(filename) == filename # <<>> /\ filename[Len(filename)] = "/"

\* Path(filename).name
PathName(filename) ==
  IF Places("/", filename) = {} THEN filename
  ELSE SubSeq(filename, Highest(Places("/", filename)) + 1, Len(filename))

\* Path.suffix: from the last dot, unless that dot is first or last
PathSuffix(name) ==
  LET dots == Places(".", name)
  IN IF dots = {} \/ Highest(dots) = 1 \/ Highest(dots) = Len(name)
     THEN <<>>
     ELSE SubSeq(name, Highest(dots), Len(name))

\* Path.stem
PathStem(name) == SubSeq(name, 1, Len(name) - Len(PathSuffix(name)))

RECURSIVE Decimal(_)
\* str(n) of the f-string
Decimal(n) ==
  LET digit(d) == <<"0", "1", "2", "3", "4", "5", "6", "7", "8", "9">>[d + 1]
  IN IF n < 10 THEN <<digit(n)>>
     ELSE Decimal(n \div 10) \o <<digit(n % 10)>>

\* (the entry's name, whatever exists)
FreePathNoCheck(out_path, counter, dir) == out_path
RECURSIVE FreePath(_, _, _)
\* the `while out_path.exists()` loop entered with out_path and counter
FreePath(out_path, counter, dir) ==
  IF out_path \in DOMAIN dir
  THEN FreePath(PathStem(out_path) \o <<"_">> \o Decimal(counter)
                  \o PathSuffix(out_path),
                counter + 1, dir)
  ELSE out_path

\* some file names: a.t, a_1.t, b
FileA == <<"a", ".", "t">>
FileA1 == <<"a", "_", "1", ".", "t">>
FileB == <<"b">>

\* the entries of an archive: files 0/a.t, 1/a.t and 0/b, the directory d/
ZipEntries ==
  {[filename |-> f, data |-> "new", fails |-> x] :
     f \in {<<"0", "/">> \o FileA, <<"1", "/">> \o FileA,
            <<"0", "/">> \o FileB},
     x \in {"nowhere", "open", "read"}}
  \cup {[filename |-> <<"d", "/">>, data |-> "", fails |-> "nowhere"]}

\* zf.infolist() of the bundles
Bundles ==
  UNION {[1..n -> ZipEntries] : n \in 0..MaxEntries}

\* the output directory before the transfer
OutputDirs ==
  {[n \in S |-> "old"] : S \in SUBSET {FileA, FileA1, FileB}}

InitZip ==
  /\ under_test = "extract_zip_stream"
  /\ observe = "calls"
  /\ ObjectsIdle
  /\ \E b \in Bundles :
       driver = [pc |-> "download", infolist |-> b, received |-> <<>>,
                 outcome |-> None]
  /\ net = [ws |-> "none"]
  /\ ble = [gatt |-> FALSE]
  /\ output_dir \in OutputDirs
  /\ pre = output_dir
  /\ last = NoCall
  /\ log = <<>>

Extracting(pc) == under_test = "extract_zip_stream" /\ driver.pc = pc

\* one turn of `for info in zf.infolist()` for entry info: the directory,
\* the list received, the path opened for writing and the exception
\* raised, if any
ExtractEntry(dir, received, info) ==
  LET name == PathName(info.filename)
      out_path == FreePath(name, 1, dir)
  IN IF IsDir(info.filename)
     THEN [dir |-> dir, received |-> received, opened |-> None,
           raised |-> None]
     ELSE IF info.fails = "open"
     THEN [dir |-> dir, received |-> received, opened |-> None,
           raised |-> Some("BadZipFile")]
     ELSE IF info.fails = "read"
     THEN [dir |-> With(dir, out_path, ""), received |-> received,
           opened |-> Some(out_path), raised |-> Some("BadZipFile")]
     ELSE [dir |-> With(dir, out_path, info.data),
           received |-> Append(received, ReceivedFile(name, out_path, 1)),
           opened |-> Some(out_path), raised |-> None]

\* do_download in the executor: the body arrives and is an archive, or it
\* is none (ZipFile raises), or urlopen raises, or the await is cancelled
Z_download ==
  /\ Extracting("download")
  /\ \/ driver' = [driver EXCEPT !.pc = "extract"]
     \/ \E e \in {"BadZipFile", "URLError", "CancelledError"} :
          driver' = [driver EXCEPT !.pc = "done", !.outcome = Some(e)]
  /\ UNCHANGED <<under_test, observe, net, ble, pre, last, log, output_dir,
                 idleVars>>

\* the loop body for the next entry
Z_extract_entry ==
  /\ Extracting("extract")
  /\ Len(log) < Len(driver.infolist)
  /\ LET info == driver.infolist[Len(log) + 1]
         res == ExtractEntry(output_dir, driver.received, info)
     IN /\ output_dir' = res.dir
        /\ log' = Logged("entry", res.opened)
        /\ driver' = IF IsNone(res.raised)
                     THEN [driver EXCEPT !.received = res.received]
                     ELSE [driver EXCEPT !.pc = "done",
                                         !.outcome = res.raised]
  /\ UNCHANGED <<under_test, observe, net, ble, pre, last, idleVars>>

\* return received
Z_return ==
  /\ Extracting("extract")
  /\ Len(log) = Len(driver.infolist)
  /\ driver' = [driver EXCEPT !.pc = "done", !.outcome = Some("returned")]
  /\ UNCHANGED <<under_test, observe, net, ble, pre, last, log, output_dir,
                 idleVars>>

NextZip == Z_download \/ Z_extract_entry \/ Z_return

SpecZip == InitZip /\ [][NextZip]_vars

(***************************************************************************)
(* C25: if the download of a bundle is cancelled or fails before it        *)
(* completes, no file of that bundle remains in the output directory.      *)
(***************************************************************************)
C25_NoPartialOutput ==
  (Extracting("done") /\ driver.outcome # Some("returned"))
    => output_dir = pre

(***************************************************************************)
(* C26: an entry whose basename name.ext already exists in the output      *)
(* directory is written under a name of the form name_N.ext, name and ext  *)
(* the stem and suffix of the entry's basename and N a positive integer,   *)
(* for any number of earlier collisions on the same basename.              *)
(***************************************************************************)
C26_CollisionSuffix ==
  under_test = "extract_zip_stream" =>
    \A i \in 1..Len(driver.received) :
      LET r == driver.received[i]
      IN r.path # r.name =>
           \E N \in 1..9 :
             r.path = PathStem(r.name) \o <<"_">> \o Decimal(N)
                        \o PathSuffix(r.name)

(***************************************************************************)
(* C27: extract_zip_stream writes every non-directory entry to a path      *)
(* directly inside output_dir built from the entry's basename only, never  *)
(* overwrites a file that existed before the write, and never writes two   *)
(* entries of one bundle to the same path.                                 *)
(***************************************************************************)
\* p begins with the stem and ends with the suffix of name; below, name
\* is the filename "{index}/{display_name}" without its first two
\* characters
BuiltFrom(name, p) ==
  /\ Len(p) >= Len(name)
  /\ SubSeq(p, 1, Len(PathStem(name))) = PathStem(name)
  /\ SubSeq(p, Len(p) - Len(PathSuffix(name)) + 1, Len(p)) = PathSuffix(name)

C27_NoOverwrite ==
  under_test = "extract_zip_stream" =>
    \A i \in 1..Len(log) :
      LET info == driver.infolist[i]
          opened == log[i].arg
      IN /\ IsDir(info.filename) => IsNone(opened)
         /\ (~IsDir(info.filename) /\ info.fails = "nowhere")
              => ~IsNone(opened)
         /\ ~IsNone(opened) =>
              /\ Places("/", Val(opened)) = {}
              /\ BuiltFrom(SubSeq(info.filename, 3, Len(info.filename)),
                           Val(opened))
              /\ Val(opened) \notin DOMAIN pre
              /\ \A j \in 1..(i - 1) : log[j].arg # opened
              /\ info.fails = "nowhere" => output_dir[Val(opened)] = info.data
              /\ \A n \in DOMAIN pre : output_dir[n] = "old"

C27_Witness ==
  /\ Extracting("done")
  /\ driver.outcome = Some("returned")
  /\ DOMAIN pre = {FileA}
  /\ Len(log) = 2
  /\ driver.infolist[1].filename = <<"0", "/">> \o FileA
  /\ driver.infolist[2].filename = <<"1", "/">> \o FileA
  /\ log[1].arg = Some(FileA1)
  /\ log[2].arg # log[1].arg
  /\ DOMAIN output_dir = {FileA, FileA1, Val(log[2].arg)}
  /\ output_dir[FileA] = "old"

(***************************************************************************)
(* protocol.py at the level of characters: WSMessage.serialize and         *)
(* WSMessage.parse with json.dumps, json.loads and MESSAGE_PATTERN.  A     *)
(* text is the sequence of its characters, type and name of a message are  *)
(* texts, and a JSON value is a record tagged with its kind t: "null",     *)
(* "bool", "int", "str" (v its text), "arr" (v the sequence of its items)  *)
(* or "obj" (v the dict, a function from key texts to values).  Numbers    *)
(* are integers and strings hold letters, digits, blanks, quotes,          *)
(* backslashes and line feeds.                                             *)
(***************************************************************************)
DigitChars == <<"0", "1", "2", "3", "4", "5", "6", "7", "8", "9">>

LetterChars ==
  {"a", "b", "c", "d", "e", "f", "g", "h", "i", "j", "k", "l", "m", "n", "o",
   "p", "q", "r", "s", "t", "u", "v", "w", "x", "y", "z", "A", "B", "C", "D",
   "E", "F", "G", "H", "I", "J", "K", "L", "M", "N", "O", "P", "Q", "R", "S",
   "T", "U", "V", "W", "X", "Y", "Z"}

IsDigit(c) == \E i \in 1..10 : DigitChars[i] = c

\* \w of the pattern
IsWord(c) == c \in LetterChars \/ IsDigit(c) \/ c = "_"

RECURSIVE ParseDecimal(_)
\* int(digits)
ParseDecimal(digits) ==
  IF digits = <<>> THEN 0
  ELSE ParseDecimal(SubSeq(digits, 1, Len(digits) - 1)) * 10
       + (CHOOSE i \in 0..9 : DigitChars[i + 1] = digits[Len(digits)])

RECURSIVE Listed(_)
\* the elements of a finite set, one after the other
Listed(S) ==
  IF S = {} THEN <<>>
  ELSE LET x == CHOOSE x \in S : TRUE IN <<x>> \o Listed(S \ {x})

RECURSIVE Joined(_)
\* ",".join(texts)
Joined(texts) ==
  IF texts = <<>> THEN <<>>
  ELSE IF Len(texts) = 1 THEN texts[1]
  ELSE texts[1] \o <<",">> \o Joined(Tail(texts))

RECURSIVE Escaped(_)
\* the inside of a JSON string literal
Escaped(text) ==
  IF text = <<>> THEN <<>>
  ELSE (IF Head(text) = "\"" THEN <<"\\", "\"">>
        ELSE IF Head(text) = "\\" THEN <<"\\", "\\">>
        ELSE IF Head(text) = "\n" THEN <<"\\", "n">>
        ELSE <<Head(text)>>)
       \o Escaped(Tail(text))

RECURSIVE JsonDumps(_)
\* json.dumps(value, separators=(",", ":"))
JsonDumps(value) ==
  LET quoted(text) == <<"\"">> \o Escaped(text) \o <<"\"">>
  IN CASE value.t = "null" -> <<"n", "u", "l", "l">>
       [] value.t = "bool" -> IF value.v THEN <<"t", "r", "u", "e">>
                              ELSE <<"f", "a", "l", "s", "e">>
       [] value.t = "int" -> IF value.v < 0
                             THEN <<"-">> \o Decimal(0 - value.v)
                             ELSE Decimal(value.v)
       [] value.t = "str" -> quoted(value.v)
       [] value.t = "arr" ->
            <<"[">> \o Joined([i \in 1..Len(value.v) |-> JsonDumps(value.v[i])])
            \o <<"]">>
       [] value.t = "obj" ->
            LET keys == Listed(DOMAIN value.v)
            IN <<"{">>
               \o Joined([i \in 1..Len(keys) |->
                            quoted(keys[i]) \o <<":">>
                            \o JsonDumps(value.v[keys[i]])])
               \o <<"}">>

RECURSIVE Skip(_)
\* text without its leading blanks
Skip(text) ==
  IF text # <<>> /\ Head(text) \in {" ", "\n", "\t", "\r"}
  THEN Skip(Tail(text)) ELSE text

\* text begins with word
StartsWith(text, word) ==
  Len(text) >= Len(word) /\ SubSeq(text, 1, Len(word)) = word

\* the results of the scanner: a value and the text after it, or an error
Scanned(v, rest) == [ok |-> TRUE, v |-> v, rest |-> rest]
ScanError == [ok |-> FALSE]

RECURSIVE JsonString(_, _)
\* the string literal whose opening quote has been read
JsonString(text, sofar) ==
  IF text = <<>> \/ Head(text) = "\n" THEN ScanError
  ELSE IF Head(text) = "\"" THEN Scanned(sofar, Tail(text))
  ELSE IF Head(text) = "\\"
  THEN IF Len(text) < 2 THEN ScanError
       ELSE IF text[2] = "\"" \/ text[2] = "\\"
       THEN JsonString(SubSeq(text, 3, Len(text)), Append(sofar, text[2]))
       ELSE IF text[2] = "n"
       THEN JsonString(SubSeq(text, 3, Len(text)), Append(sofar, "\n"))
       ELSE ScanError
  ELSE JsonString(Tail(text), Append(sofar, Head(text)))

RECURSIVE Digits(_)
\* the longest run of digits text begins with
Digits(text) ==
  IF text # <<>> /\ IsDigit(Head(text))
  THEN <<Head(text)>> \o Digits(Tail(text)) ELSE <<>>

RECURSIVE JsonValue(_)
RECURSIVE JsonItems(_, _)
RECURSIVE JsonMembers(_, _)
\* the items of an array after "[" or after a comma
JsonItems(text, sofar) ==
  LET item == JsonValue(text)
      after == Skip(item.rest)
  IN IF ~item.ok \/ after = <<>> THEN ScanError
     ELSE IF Head(after) = "]"
     THEN Scanned([t |-> "arr", v |-> Append(sofar, item.v)], Tail(after))
     ELSE IF Head(after) = ","
     THEN JsonItems(Tail(after), Append(sofar, item.v))
     ELSE ScanError

\* the members of an object after "{" or after a comma
JsonMembers(text, sofar) ==
  LET start == Skip(text)
      key == JsonString(Tail(start), <<>>)
      colon == Skip(key.rest)
      val == JsonValue(Tail(colon))
      after == Skip(val.rest)
      dict == [k \in DOMAIN sofar \cup {key.v} |->
                 IF k = key.v THEN val.v ELSE sofar[k]]
  IN IF start = <<>> \/ Head(start) # "\"" THEN ScanError
     ELSE IF ~key.ok \/ colon = <<>> \/ Head(colon) # ":" THEN ScanError
     ELSE IF ~val.ok \/ after = <<>> THEN ScanError
     ELSE IF Head(after) = "}"
     THEN Scanned([t |-> "obj", v |-> dict], Tail(after))
     ELSE IF Head(after) = "," THEN JsonMembers(Tail(after), dict)
     ELSE ScanError

\* the JSON value text begins with
JsonValue(text) ==
  LET s == Skip(text)
      negative == s # <<>> /\ Head(s) = "-"
      digits == Digits(IF negative THEN Tail(s) ELSE s)
      number == ParseDecimal(digits)
      word(w, v) == Scanned(v, SubSeq(s, Len(w) + 1, Len(s)))
  IN IF s = <<>> THEN ScanError
     ELSE IF Head(s) = "{"
     THEN IF Skip(Tail(s)) # <<>> /\ Head(Skip(Tail(s))) = "}"
          THEN Scanned([t |-> "obj", v |-> <<>>], Tail(Skip(Tail(s))))
          ELSE JsonMembers(Tail(s), <<>>)
     ELSE IF Head(s) = "["
     THEN IF Skip(Tail(s)) # <<>> /\ Head(Skip(Tail(s))) = "]"
          THEN Scanned([t |-> "arr", v |-> <<>>], Tail(Skip(Tail(s))))
          ELSE JsonItems(Tail(s), <<>>)
     ELSE IF Head(s) = "\""
     THEN LET str == JsonString(Tail(s), <<>>)
          IN IF str.ok THEN Scanned([t |-> "str", v |-> str.v], str.rest)
             ELSE ScanError
     ELSE IF StartsWith(s, <<"n", "u", "l", "l">>)
     THEN word(<<"n", "u", "l", "l">>, [t |-> "null"])
     ELSE IF StartsWith(s, <<"t", "r", "u", "e">>)
     THEN word(<<"t", "r", "u", "e">>, [t |-> "bool", v |-> TRUE])
     ELSE IF StartsWith(s, <<"f", "a", "l", "s", "e">>)
     THEN word(<<"f", "a", "l", "s", "e">>, [t |-> "bool", v |-> FALSE])
     ELSE IF digits # <<>> /\ (Len(digits) = 1 \/ digits[1] # "0")
     THEN Scanned([t |-> "int",
                   v |-> IF negative THEN 0 - number ELSE number],
                  SubSeq(s, Len(digits) + (IF negative THEN 2 ELSE 1),
                         Len(s)))
     ELSE ScanError

\* json.loads(text): the value, or None for json.JSONDecodeError
JsonLoads(text) ==
  LET value == JsonValue(text)
  IN IF value.ok /\ Skip(value.rest) = <<>> THEN Some(value.v) ELSE None

\* (a payload is written only if it is true)
WSMessage_serialize_if_payload(msg) ==
  msg.type \o <<":">> \o Decimal(msg.id) \o <<":">> \o msg.name
  \o (IF IsNone(msg.payload) \/ DOMAIN Val(msg.payload).v = {} THEN <<>>
      ELSE <<"?">> \o JsonDumps(Val(msg.payload)))
\* WSMessage.serialize()
WSMessage_serialize(msg) ==
  msg.type \o <<":">> \o Decimal(msg.id) \o <<":">> \o msg.name
  \o (IF IsNone(msg.payload) THEN <<>>
      ELSE <<"?">> \o JsonDumps(Val(msg.payload)))

\* MESSAGE_PATTERN.match(text): None, or the groups 1, 2, 3 and 5.  "$"
\* lets one line feed follow the match, and "." is any other character.
MessageMatch(text) ==
  LET line == IF text # <<>> /\ text[Len(text)] = "\n"
              THEN SubSeq(text, 1, Len(text) - 1) ELSE text
      colons == Places(":", line)
      c1 == CHOOSE i \in colons : \A j \in colons : i <= j
      later == {i \in colons : i > c1}
      c2 == CHOOSE i \in later : \A j \in later : i <= j
      marks == {i \in Places("?", line) : i > c2}
      q == IF marks = {} THEN Len(line) + 1
           ELSE CHOOSE i \in marks : \A j \in marks : i <= j
      words(from, to) == to >= from /\ \A i \in from..to : IsWord(line[i])
  IN IF colons = {} \/ later = {} THEN None
     ELSE IF /\ Places("\n", line) = {}
             /\ words(1, c1 - 1)
             /\ c2 > c1 + 1
             /\ \A i \in (c1 + 1)..(c2 - 1) : IsDigit(line[i])
             /\ words(c2 + 1, q - 1)
     THEN Some([type |-> SubSeq(line, 1, c1 - 1),
                id |-> SubSeq(line, c1 + 1, c2 - 1),
                name |-> SubSeq(line, c2 + 1, q - 1),
                json_text |-> IF marks = {} THEN None
                              ELSE Some(SubSeq(line, q + 1, Len(line)))])
     ELSE None

\* WSMessage.parse(text)
WSMessage_parse(text) ==
  LET match == MessageMatch(text)
      json_text == Val(match).json_text
      loaded == JsonLoads(Val(json_text))
      payload == IF IsNone(json_text) \/ Val(json_text) = <<>> THEN None
                 ELSE IF Val(loaded).t = "null" THEN None
                 ELSE loaded
  IN IF IsNone(match) THEN None
     ELSE IF ~IsNone(json_text) /\ Val(json_text) # <<>> /\ IsNone(loaded)
     THEN None
     ELSE Some(WSMessage(Val(match).type, ParseDecimal(Val(match).id),
                         Val(match).name, payload))

\* some texts: action, ack, ping, status, s1, a_b
TextAction == <<"a", "c", "t", "i", "o", "n">>
TextAck == <<"a", "c", "k">>
TextStatus == <<"s", "t", "a", "t", "u", "s">>

\* JSON values
JInt(n) == [t |-> "int", v |-> n]
JStr(text) == [t |-> "str", v |-> text]
JObj(key, value) == [t |-> "obj", v |-> [k \in {key} |-> value]]

\* the payloads of valid control frames: none, or a JSON object
FramePayloads ==
  {None,
   Some([t |-> "obj", v |-> <<>>]),
   Some(JObj(<<"a">>, JInt(1))),
   Some(JObj(<<"a">>, JInt(-12))),
   Some(JObj(<<"i", "d">>, JStr(<<"b", " ", "c">>))),
   Some(JObj(<<"a">>, JStr(<<"\"", "\\", "\n", "?", ":">>))),
   Some(JObj(<<"a">>, JObj(<<"b">>, [t |-> "null"]))),
   Some(JObj(<<"a">>, [t |-> "arr", v |-> <<JInt(0), [t |-> "bool", v |-> TRUE],
                                            [t |-> "arr", v |-> <<>>]>>])),
   Some([t |-> "obj",
         v |-> [k \in {<<"a">>, <<"b", "?">>} |->
                  IF k = <<"a">> THEN [t |-> "bool", v |-> FALSE]
                  ELSE JStr(<<>>)]])}

\* the valid control frames
ValidFrames ==
  {WSMessage(type, id, name, payload) :
     type \in {TextAction, TextAck},
     id \in {0, 7, 12, 100},
     name \in {TextStatus, <<"s", "1">>, <<"A">>},
     payload \in FramePayloads}

\* texts put together from a type, an id, a name and an end that are or
\* are not those of a control message, and texts with too few colons
Texts ==
  {type \o <<":">> \o id \o <<":">> \o name \o end :
     type \in {TextAction, TextAck, <<"p", "i", "n", "g">>, <<"a", "c", "-">>,
               <<>>},
     id \in {<<"1">>, <<"0", "7">>, <<"a", "b", "c">>, <<"-", "1">>, <<>>},
     name \in {TextStatus, <<"a", "_", "b">>, <<"a", " ", "b">>, <<>>},
     end \in {<<>>, <<"?">>, <<"\n">>, <<"?", "{", "}">>,
              <<"?", "{", "}", "\n">>, <<"?", "5">>, <<"?", "[", "]">>,
              <<"?", "n", "u", "l", "l">>, <<"?", "\"", "s", "\"">>,
              <<"?", "{", "\"", "a", "\"", ":", "1", "}">>,
              <<"?", "{", "\"", "a", "\"">>,
              <<"?", "{", "a", ":", "1", "}">>,
              <<"?", "{", "}", "x">>,
              <<"?", " ", "{", "\"", "a", "\"", ":", " ", "[", "1", ",",
                "t", "r", "u", "e", "]", "}">>}}
  \cup {<<>>, <<"i", "n", "v", "a", "l", "i", "d">>,
        TextAction \o <<":">> \o <<"1">>,
        TextAction \o <<":", "a", "b", "c", ":", "t", "e", "s", "t">>}

InitCodec ==
  /\ under_test = "WSMessage"
  /\ observe = "calls"
  /\ ObjectsIdle
  /\ TransportIdle
  /\ \/ \E f \in ValidFrames : pre = [frame |-> f]
     \/ \E text \in Texts : pre = [text |-> text]
  /\ last = NoCall

\* f.serialize() for the frame drawn
M_serialize ==
  /\ under_test = "WSMessage"
  /\ last = NoCall
  /\ "frame" \in DOMAIN pre
  /\ last' = Call("serialize", Some(pre.frame), <<>>,
                  Some(WSMessage_serialize(pre.frame)), None)
  /\ UNCHANGED <<under_test, observe, pre, transportVars, idleVars>>

\* WSMessage.parse of the text drawn, or of the text serialize returned
M_parse ==
  /\ under_test = "WSMessage"
  /\ \/ last = NoCall /\ "text" \in DOMAIN pre
     \/ last # NoCall /\ last.op = "serialize"
  /\ LET text == IF last = NoCall THEN pre.text ELSE Val(last.ret)
     IN last' = Call("parse", Some(text), <<>>, WSMessage_parse(text), None)
  /\ UNCHANGED <<under_test, observe, pre, transportVars, idleVars>>

NextCodec == M_serialize \/ M_parse

SpecCodec == InitCodec /\ [][NextCodec]_vars

(***************************************************************************)
(* C28: for every valid control frame f (type action or ack, non-negative  *)
(* integer id, alphanumeric name, payload absent or a JSON object),        *)
(* WSMessage.parse(f.serialize()) equals f in type, id, name and payload.  *)
(***************************************************************************)
C28_RoundTrip ==
  (under_test = "WSMessage" /\ last # NoCall /\ last.op = "parse"
   /\ "frame" \in DOMAIN pre)
    => /\ ~IsNone(last.ret)
       /\ Val(last.ret).type = pre.frame.type
       /\ Val(last.ret).id = pre.frame.id
       /\ Val(last.ret).name = pre.frame.name
       /\ Val(last.ret).payload = pre.frame.payload

C28_Witness ==
  /\ under_test = "WSMessage"
  /\ last # NoCall
  /\ last.op = "parse"
  /\ "frame" \in DOMAIN pre
  /\ Val(last.msg) =
       TextAck \o <<":", "1", "0", "0", ":">> \o TextStatus
       \o <<"?", "{", "\"", "a", "\"", ":", "\"", "\\", "\"", "\\", "\\",
            "\\", "n", "?", ":", "\"", "}">>
  /\ Val(last.ret) = pre.frame

(***************************************************************************)
(* C29: WSMessage.parse returns None, without raising, for every input     *)
(* that does not match the control-message grammar (a type other than      *)
(* action or ack, an id that is not all digits, a name with characters     *)
(* other than letters and digits, a "?" not followed by a JSON object) and *)
(* for every input whose payload fails to parse as JSON.                   *)
(***************************************************************************)
\* control-message = type ":" 1*DIGIT ":" 1*(ALPHA / DIGIT) [ "?" json ]
InGrammar(text) ==
  \E c1, c2 \in 1..Len(text) :
    \E q \in 1..(Len(text) + 1) :
      /\ c1 < c2 /\ c2 < q
      /\ text[c1] = ":" /\ text[c2] = ":"
      /\ SubSeq(text, 1, c1 - 1) \in {TextAction, TextAck}
      /\ c2 > c1 + 1
      /\ \A i \in (c1 + 1)..(c2 - 1) : IsDigit(text[i])
      /\ q > c2 + 1
      /\ \A i \in (c2 + 1)..(q - 1) :
           text[i] \in LetterChars \/ IsDigit(text[i])
      /\ \/ q = Len(text) + 1
         \/ /\ text[q] = "?"
            /\ LET json == JsonLoads(SubSeq(text, q + 1, Len(text)))
               IN ~IsNone(json) /\ Val(json).t = "obj"

C29_RejectsOffGrammar ==
  (under_test = "WSMessage" /\ last # NoCall /\ last.op = "parse"
   /\ ~InGrammar(Val(last.msg)))
    => IsNone(last.ret) /\ IsNone(last.raised)

(***************************************************************************)
(* crypto.py: two peers that have exchanged public keys, each holding the  *)
(* session cipher it derived from the other's key.                         *)
(***************************************************************************)
\* "", "A", "DIRECT-ab", "12345678", "aa:bb", e-acute, "a" euro "b", an
\* emoji, and hiragana ko n
PlainTexts ==
  {<<>>, <<65>>, <<68, 73, 82, 69, 67, 84, 45, 97, 98>>,
   <<49, 50, 51, 52, 53, 54, 55, 56>>, <<97, 97, 58, 98, 98>>,
   <<233>>, <<97, 8364, 98>>, <<128512>>, <<12371, 12435>>}

\* alice and bob: DefaultCryptoProvider() twice, then
\* alice.derive_session_cipher(bob.get_public_key()) and the converse
InitCrypto ==
  /\ under_test = "SessionCipher"
  /\ observe = "calls"
  /\ ObjectsIdle
  /\ TransportIdle
  /\ \E module \in CryptoModules, a \in PrivateKeys, b \in PrivateKeys :
       \E x \in PlainTexts :
         LET c_A == DeriveSessionCipher(module, a, GetPublicKey(b))
             c_B == DeriveSessionCipher(module, b, GetPublicKey(a))
         IN /\ IsNone(c_A.raised)
            /\ IsNone(c_B.raised)
            /\ pre = [module |-> module, a |-> a, b |-> b, x |-> x,
                      c_A |-> Val(c_A.ret), c_B |-> Val(c_B.ret)]
  /\ last = NoCall

\* c_A.encrypt(x)
K_encrypt ==
  /\ under_test = "SessionCipher"
  /\ last = NoCall
  /\ last' = Call("encrypt", Some(pre.x), <<>>,
                  Some(CipherEncrypt(pre.c_A, pre.x)), None)
  /\ UNCHANGED <<under_test, observe, pre, transportVars, idleVars>>

\* cipher.decrypt(encoded_data) as a call of the peer named
Decrypted(peer, cipher, encoded_data) ==
  LET res == CipherDecrypt(cipher, encoded_data)
  IN Call("decrypt", Some(encoded_data), <<peer>>, res.ret, res.raised)

\* c_A.decrypt(encrypted)
K_decrypt_same ==
  /\ under_test = "SessionCipher"
  /\ last # NoCall
  /\ last.op = "encrypt"
  /\ last' = Decrypted("A", pre.c_A, Val(last.ret))
  /\ UNCHANGED <<under_test, observe, pre, transportVars, idleVars>>

\* c_B.decrypt(ciphertext)
K_decrypt_peer ==
  /\ under_test = "SessionCipher"
  /\ last # NoCall
  /\ last.op = "encrypt"
  /\ last' = Decrypted("B", pre.c_B, Val(last.ret))
  /\ UNCHANGED <<under_test, observe, pre, transportVars, idleVars>>

NextCrypto == K_encrypt \/ K_decrypt_same \/ K_decrypt_peer

SpecCrypto == InitCrypto /\ [][NextCrypto]_vars

(***************************************************************************)
(* C30: for two peers A and B with independent key pairs, c_A derived by A *)
(* from B's public key and c_B by B from A's public key,                   *)
(* c_B.decrypt(c_A.encrypt(x)) = x and c_A.decrypt(c_A.encrypt(x)) = x     *)
(* for every UTF-8 text x.                                                 *)
(***************************************************************************)
C30_DecryptInvertsEncrypt ==
  (under_test = "SessionCipher" /\ last # NoCall /\ last.op = "decrypt")
    => IsNone(last.raised) /\ last.ret = Some(pre.x)

C30_Witness ==
  /\ under_test = "SessionCipher"
  /\ last # NoCall
  /\ last.op = "decrypt"
  /\ last.yielded = <<"B">>
  /\ pre.module = "mtapy/crypto.py"
  /\ pre.a # pre.b
  /\ pre.x = <<97, 8364, 98>>
  /\ last.ret = Some(pre.x)

(***************************************************************************)
(* drivers/bleak_driver.py: parse_scan_response.  A blob is a sequence of  *)
(* bytes and a name the sequence of its code points.                       *)
(***************************************************************************)
RECURSIVE RStrip(_, _)
\* data.rstrip(bytes([b]))
RStrip(data, b) ==
  IF data # <<>> /\ data[Len(data)] = b
  THEN RStrip(SubSeq(data, 1, Len(data) - 1), b)
  ELSE data

\* "Unknown"
NameUnknown == <<85, 110, 107, 110, 111, 119, 110>>

\* name[:-1] + "..." for a name that ends with "\t", else the name
Untruncated(name) ==
  IF name # <<>> /\ name[Len(name)] = 9
  THEN SubSeq(name, 1, Len(name) - 1) \o <<46, 46, 46>>
  ELSE name

\* parse_scan_response(data): (name, brand, supports_5ghz)
ParseScanResponse(data) ==
  IF Len(data) < 27
  THEN [name |-> NameUnknown, brand |-> None, supports_5ghz |-> TRUE]
  ELSE LET name_bytes == SubSeq(data, 11, 26)
           decoded == Utf8Decode(RStrip(name_bytes, 0))
       IN [name |-> IF IsNone(decoded) THEN NameUnknown
                    ELSE Untruncated(Val(decoded)),
           brand |-> None,
           supports_5ghz |-> data[27] % 2 # 0]

\* s padded with NULs to n bytes
Padded(s, n) == s \o [i \in 1..(n - Len(s)) |-> 0]

\* the 16 name bytes of a blob: "Phone", nothing, 16 letters, 15 letters
\* and a TAB, "ab" and a TAB, a TAB alone, a TAB inside, a NUL inside,
\* e-acute, a byte that starts no character, a character cut short at the
\* end, a TAB after NULs
NameFields ==
  {Padded(<<80, 104, 111, 110, 101>>, 16),
   Padded(<<>>, 16),
   [i \in 1..16 |-> 96 + i],
   [i \in 1..16 |-> IF i = 16 THEN 9 ELSE 96 + i],
   Padded(<<97, 98, 9>>, 16),
   Padded(<<9>>, 16),
   Padded(<<97, 9, 98>>, 16),
   Padded(<<97, 0, 98>>, 16),
   Padded(<<195, 169>>, 16),
   Padded(<<255, 97>>, 16),
   [i \in 1..16 |-> IF i = 16 THEN 195 ELSE 96 + i],
   Padded(<<97, 0, 9>>, 16)}

\* the scan responses: whole ones, with and without bytes after the
\* flags, and short ones
Blobs ==
  {Padded(<<>>, 8) \o <<171, 205>> \o name \o <<flags>> \o more :
     name \in NameFields, flags \in {0, 1, 2, 3, 255},
     more \in {<<>>, <<7>>}}
  \cup {Padded(<<>>, n) : n \in {0, 1, 26}}
  \cup {Padded(<<>>, 8) \o <<171, 205>> \o Padded(<<255>>, 16)}

InitBlob ==
  /\ under_test = "parse_scan_response"
  /\ observe = "calls"
  /\ ObjectsIdle
  /\ TransportIdle
  /\ \E data \in Blobs : pre = [data |-> data]
  /\ last = NoCall

\* parse_scan_response(data) for the blob drawn
R_parse_scan_response ==
  /\ under_test = "parse_scan_response"
  /\ last = NoCall
  /\ last' = Call("parse_scan_response", Some(pre.data), <<>>,
                  Some(ParseScanResponse(pre.data)), None)
  /\ UNCHANGED <<under_test, observe, pre, transportVars, idleVars>>

SpecBlob == InitBlob /\ [][R_parse_scan_response]_vars

(***************************************************************************)
(* C31: parse_scan_response agrees with the reference decoder on every     *)
(* blob: a malformed blob (shorter than 27 bytes, or whose name bytes      *)
(* 10-25 are not valid UTF-8) yields name "Unknown" and supports_5ghz =    *)
(* true; any other blob yields the name bytes with trailing NULs removed   *)
(* and a trailing TAB rendered as an ellipsis, and supports_5ghz equal to  *)
(* bit 0 of byte 26.                                                       *)
(***************************************************************************)
\* the blob is malformed
Malformed(data) ==
  Len(data) < 27 \/ IsNone(Utf8Decode(RStrip(SubSeq(data, 11, 26), 0)))

C31_AgreesWithReference ==
  (under_test = "parse_scan_response" /\ last # NoCall)
    => LET data == Val(last.msg)
           ret == Val(last.ret)
       IN IF Malformed(data)
          THEN ret.name = NameUnknown /\ ret.supports_5ghz
          ELSE /\ ret.name =
                    Untruncated(Val(Utf8Decode(RStrip(SubSeq(data, 11, 26),
                                                      0))))
               /\ ret.supports_5ghz = (data[27] % 2 = 1)

(***************************************************************************)
(* models.py: SendRequest and TransferStatus to and from their dicts.      *)
(***************************************************************************)
\* SendRequest(...)
SendRequests ==
  [task_id : {"", "123456", "t-2"},
   sender_id : {"abcd"},
   sender_name : {"Unknown", "Test Device"},
   file_name : {"", "photo.jpg"},
   file_count : {0, 1, 3},
   total_size : {0, 1024},
   mime_type : {"*/*", "image/jpeg"},
   text_content : {None, Some(""), Some("hello")},
   thumbnail : {None, Some("dGh1bWI=")}]

\* TransferStatus.to_dict
TransferStatus_to_dict(s) ==
  [taskId |-> s.task_id, id |-> s.task_id, type |-> s.type,
   reason |-> s.reason]

\* TransferStatus(...)
TransferStatuses ==
  [type : {1, 3}, reason : {"ok", "user refuse"},
   task_id : {"", "123456", "t-2"}]

\* d without the key k
Without(d, k) == [x \in DOMAIN d \ {k} |-> d[x]]

\* payloads that carry the task id under one of the two keys only
OneKeyPayloads ==
  {[cls |-> "SendRequest", d |-> Without(SendRequest_to_dict(r), k),
    task_id |-> r.task_id] :
     r \in {q \in SendRequests : q.file_count = 1 /\ q.total_size = 0},
     k \in {"taskId", "id"}}
  \cup {[cls |-> "TransferStatus", d |-> Without(TransferStatus_to_dict(s), k),
         task_id |-> s.task_id] :
          s \in TransferStatuses, k \in {"taskId", "id"}}

InitModels ==
  /\ under_test = "models"
  /\ observe = "calls"
  /\ ObjectsIdle
  /\ TransportIdle
  /\ \/ \E r \in SendRequests : pre = [r |-> r]
     \/ \E p \in OneKeyPayloads : pre = p
  /\ last = NoCall

\* r.to_dict()
O_to_dict ==
  /\ under_test = "models"
  /\ last = NoCall
  /\ "r" \in DOMAIN pre
  /\ last' = Call("to_dict", Some(pre.r), <<>>,
                  Some(SendRequest_to_dict(pre.r)), None)
  /\ UNCHANGED <<under_test, observe, pre, transportVars, idleVars>>

\* SendRequest.from_dict(d), d being what to_dict returned or the payload
O_from_dict ==
  /\ under_test = "models"
  /\ \/ last # NoCall /\ last.op = "to_dict"
     \/ last = NoCall /\ "d" \in DOMAIN pre /\ pre.cls = "SendRequest"
  /\ LET d == IF last = NoCall THEN pre.d ELSE Val(last.ret)
     IN last' = Call("SendRequest.from_dict", Some(d), <<>>,
                     Some(SendRequest_from_dict(d)), None)
  /\ UNCHANGED <<under_test, observe, pre, transportVars, idleVars>>

\* TransferStatus.from_dict(d)
O_status_from_dict ==
  /\ under_test = "models"
  /\ last = NoCall
  /\ "d" \in DOMAIN pre
  /\ pre.cls = "TransferStatus"
  /\ last' = Call("TransferStatus.from_dict", Some(pre.d), <<>>,
                  Some(TransferStatus_from_dict(pre.d)), None)
  /\ UNCHANGED <<under_test, observe, pre, transportVars, idleVars>>

NextModels == O_to_dict \/ O_from_dict \/ O_status_from_dict

SpecModels == InitModels /\ [][NextModels]_vars

(***************************************************************************)
(* C32: SendRequest.to_dict always emits both taskId and id carrying the   *)
(* same task id, and SendRequest.from_dict and TransferStatus.from_dict    *)
(* recover that task id from a payload that carries only taskId or only    *)
(* id, so that SendRequest.from_dict(r.to_dict()) = r for every            *)
(* SendRequest r.                                                          *)
(***************************************************************************)
C32_TaskIdUnderBothKeys ==
  (under_test = "models" /\ last # NoCall)
    => /\ last.op = "to_dict"
            => /\ {"taskId", "id"} \subseteq DOMAIN Val(last.ret)
               /\ Val(last.ret)["taskId"] = pre.r.task_id
               /\ Val(last.ret)["id"] = pre.r.task_id
       /\ (last.op # "to_dict" /\ "d" \in DOMAIN pre)
            => Val(last.ret).task_id = pre.task_id
       /\ (last.op # "to_dict" /\ "r" \in DOMAIN pre)
            => Val(last.ret) = pre.r

C32_Witness ==
  /\ under_test = "models"
  /\ last # NoCall
  /\ last.op = "SendRequest.from_dict"
  /\ "r" \in DOMAIN pre
  /\ pre.r.task_id = "123456"
  /\ ~IsNone(pre.r.text_content)
  /\ Val(last.ret) = pre.r

(***************************************************************************)
(* C33: Completed and Failed are terminal for the receiver: once           *)
(* ReceiverProtocol.state is Completed or Failed, no inbound message and   *)
(* no call of accept_transfer, reject_transfer or send_ok changes the      *)
(* state.                                                                  *)
(***************************************************************************)
C33_ReceiverTerminal ==
  (OnReceiver /\ last # NoCall /\ pre.state \in {"COMPLETED", "FAILED"})
    => receiver.state = pre.state

(***************************************************************************)
(* C34: the sender advances only along Initial, SentVersion, SentRequest,  *)
(* WaitDownload, Transferring, Completed: each of these states is entered  *)
(* only from its predecessor in the list, so the sender is never in        *)
(* Completed without having been in Transferring and never in WaitDownload *)
(* without having been in SentRequest.                                     *)
(***************************************************************************)
SenderPath ==
  <<"INITIAL", "SENT_VERSION", "SENT_REQUEST", "WAITING_DOWNLOAD",
    "TRANSFERRING", "COMPLETED">>

C34_SenderAlongPath ==
  (OnSender /\ last # NoCall /\ sender.state # pre.state)
    => \A i \in 1..Len(SenderPath) :
         sender.state = SenderPath[i] => i > 1 /\ pre.state = SenderPath[i - 1]

(***************************************************************************)
(* C35: the SendRequest built by the sender has mime_type equal to the     *)
(* files' common mime type when all configured files share one and "*/*"   *)
(* otherwise, file_count equal to the number of configured files,          *)
(* total_size equal to the sum of their sizes, and file_name equal to the  *)
(* first file's name.                                                      *)
(***************************************************************************)
\* the last call yielded a sendRequest frame, which carries the request
\* built
RequestBuilt ==
  /\ OnSender
  /\ last # NoCall
  /\ last.op = "on_ws_message"
  /\ Len(last.yielded) = 1
  /\ ~IsNone(last.yielded[1][2])
  /\ Val(last.yielded[1][2]).name = WS_ACTION_SEND_REQUEST
  /\ Val(last.yielded[1][2]).type = WS_TYPE_ACTION

BuiltRequest == Val(Val(last.yielded[1][2]).payload)

C35_RequestSummarisesFiles ==
  RequestBuilt =>
    LET files == pre.files
        mimes == {files[i].mime_type : i \in 1..Len(files)}
    IN /\ files # <<>>
       /\ BuiltRequest["mimeType"] =
            (IF \E m \in mimes : mimes = {m}
             THEN CHOOSE m \in mimes : TRUE ELSE "*/*")
       /\ BuiltRequest["fileCount"] = Len(files)
       /\ BuiltRequest["totalSize"] = SumSizes(files)
       /\ BuiltRequest["fileName"] = files[1].name

C35_Witness ==
  /\ RequestBuilt
  /\ Len(pre.files) = 2
  /\ pre.files[1].mime_type # pre.files[2].mime_type
  /\ BuiltRequest["mimeType"] = "*/*"
  /\ BuiltRequest["totalSize"] = 9

(***************************************************************************)
(* C36: in MTAReceiver.receive_from the bundle is downloaded only after    *)
(* the transfer was accepted (auto_accept is true or on_request returned   *)
(* true); when auto_accept is false and no on_request callback is set the  *)
(* transfer is rejected with a status type 3 frame and nothing is          *)
(* downloaded; a status type 1 frame is sent only after download and       *)
(* extraction returned without error.                                      *)
(***************************************************************************)
\* the positions of the log where a status frame of this type was sent
StatusSent(type) ==
  {i \in Positions("send") :
     LET msg == Val(Parse(log[i].arg))
     IN /\ msg.type = WS_TYPE_ACTION
        /\ msg.name = WS_ACTION_STATUS
        /\ Val(msg.payload)["type"] = type}

\* the positions where the download returned the files
Downloaded == {i \in Positions("download") : IsNone(log[i].arg.raised)}

\* the events of this kind that receive_from has handled
Handling(kind) == {i \in Positions("event") : log[i].arg = kind}

DownloadOnlyAccepted ==
  \A i \in Positions("download") :
    \/ driver.cfg.accept = "auto_accept"
    \/ \E j \in Positions("on_request") : j < i /\ log[j].arg

\* with neither auto_accept nor on_request nothing is downloaded, and a
\* request is answered with a status 3 frame once receive_from has left
\* the connection, unless the peer had closed it before the frame was sent
RejectedByDefault ==
  driver.cfg.accept = "neither" =>
    /\ Positions("download") = {}
    /\ (Handling("SendRequestReceived") # {}
        /\ driver.pc \in {"ws_close", "finally_stop_advertising",
                          "finally_stop_gatt_server", "done"})
         => /\ receiver.state = "FAILED"
            /\ \/ \E i \in StatusSent(STATUS_USER_REFUSE) :
                    \E j \in Handling("SendRequestReceived") : j < i
               \/ driver.outcome = Some("ConnectionClosed")

P2pSecond ==
  [P2pPlain EXCEPT !.mac = <<49, 48, 46, 48, 46, 48, 46, 50>>, !.port = 9000]

\* the values written: credentials, plain or encrypted, other credentials,
\* plain or encrypted, encrypted ones that are damaged, and no JSON at all
SeveralWrites ==
  LET cipher == Val(DeriveSessionCipher("crypto.py", 2, GetPublicKey(3)).ret)
  IN {<<[object |-> P2pPlain]>>,
      <<[object |-> P2pSecond]>>,
      Bytes(<<0, 18>>) \o <<[object |-> P2pSealed(2, 3)]>>,
      <<[object |-> [P2pSealed(2, 3) EXCEPT
                       !.mac = CipherEncrypt(cipher, P2pSecond.mac)]]>>,
      <<[object |-> [P2pSealed(2, 3) EXCEPT !.psk = Tail(@)]]>>,
      Bytes(<<255>>)}

\* what on_write makes of them for a receiver whose private key is 3
SeveralOutcomes == {OnWrite(3, value) : value \in SeveralWrites}

InitWrites ==
  /\ under_test = "listen"
  /\ observe = "calls"
  /\ ObjectsIdle
  /\ driver = [pc |-> "wait_p2p", p2p_info |-> None]
  /\ net = [ws |-> "none", expired |-> FALSE]
  /\ ble = [gatt |-> TRUE, advertising |-> TRUE,
            p2p_received |-> [done |-> FALSE, result |-> None],
            write_error |-> FALSE]
  /\ pre = ble
  /\ last = NoCall
  /\ log = <<>>
  /\ output_dir = <<>>

\* the handler of one write runs
W_on_write ==
  /\ under_test = "listen"
  /\ ble.gatt
  /\ Len(log) < MaxWrites
  /\ \E res \in SeveralOutcomes :
       /\ ble' = GattWrite(ble, res)
       /\ log' = Append(log, res)
  /\ UNCHANGED <<under_test, observe, driver, net, pre, last, output_dir,
                 idleVars>>

\* the timeout of wait_for passes
W_timeout_passes ==
  /\ under_test = "listen"
  /\ driver.pc = "wait_p2p"
  /\ ~net.expired
  /\ net' = [net EXCEPT !.expired = TRUE]
  /\ UNCHANGED <<under_test, observe, driver, ble, log, pre, last,
                 output_dir, idleVars>>

\* p2p_info = await asyncio.wait_for(p2p_received, timeout=timeout)
W_wait_p2p ==
  /\ under_test = "listen"
  /\ driver.pc = "wait_p2p"
  /\ \/ /\ ble.p2p_received.done
        /\ driver' = [driver EXCEPT !.pc = "stop_advertising",
                                    !.p2p_info = ble.p2p_received.result]
        /\ UNCHANGED ble
     \/ /\ ~ble.p2p_received.done
        /\ net.expired
        /\ driver' = [driver EXCEPT !.pc = "finally_stop_advertising"]
        /\ ble' = [ble EXCEPT !.p2p_received =
                                [done |-> TRUE, result |-> None]]
  /\ UNCHANGED <<under_test, observe, net, log, pre, last, output_dir,
                 idleVars>>

\* the finally clause: stop_advertising, stop_gatt_server
W_finally ==
  /\ under_test = "listen"
  /\ driver.pc \in {"stop_advertising", "finally_stop_advertising"}
  /\ driver' = [driver EXCEPT !.pc = "done"]
  /\ ble' = [ble EXCEPT !.gatt = FALSE, !.advertising = FALSE]
  /\ UNCHANGED <<under_test, observe, net, log, pre, last, output_dir,
                 idleVars>>

NextWrites == W_on_write \/ W_timeout_passes \/ W_wait_p2p \/ W_finally

SpecWrites == InitWrites /\ [][NextWrites]_vars

(***************************************************************************)
(* C37: however many P2P characteristic writes arrive and however their    *)
(* handlers interleave, the credentials listen uses are those of the first *)
(* write that was decoded (and, when keyed, decrypted) successfully: later *)
(* writes never replace them, and a write that fails to decode leaves      *)
(* listen waiting and can still be followed by a successful one.           *)
(***************************************************************************)
\* the writes, in handler order, that on_write decoded
Decoded == {i \in DOMAIN log : IsNone(log[i].raised)}

FirstDecoded == log[CHOOSE i \in Decoded : \A j \in Decoded : i <= j].ret

C37_FirstDecodedWriteWins ==
  under_test = "listen" =>
    /\ ~IsNone(ble.p2p_received.result)
         => Decoded # {} /\ ble.p2p_received.result = FirstDecoded
    /\ ~IsNone(driver.p2p_info)
         => Decoded # {} /\ driver.p2p_info = FirstDecoded
    /\ (Decoded = {} /\ driver.pc = "wait_p2p") => ~ble.p2p_received.done
    /\ driver.pc = "stop_advertising" => ~IsNone(driver.p2p_info)

C37_Witness ==
  /\ under_test = "listen"
  /\ Len(log) = 3
  /\ ~IsNone(log[1].raised)
  /\ Decoded = {2, 3}
  /\ Val(log[2].ret).mac = P2pSecond.mac
  /\ Val(log[3].ret).mac = P2pPlain.mac
  /\ driver.pc = "done"
  /\ Val(driver.p2p_info).mac = P2pSecond.mac
  /\ Val(driver.p2p_info).port = P2pSecond.port

(***************************************************************************)
(* C38: once MTAReceiver.listen has started advertising, every way it ends *)
(* (transfer finished, timeout while waiting for credentials, or an error  *)
(* raised by on_p2p or receive_from) is preceded by a call of              *)
(* stop_advertising followed by a call of stop_gatt_server, and            *)
(* stop_advertising may be called twice in one run without effect the      *)
(* second time.                                                            *)
(***************************************************************************)
\* listen has ended after it had started advertising
ListenEnded ==
  /\ under_test = "MTAReceiver"
  /\ driver.cfg.entry = "listen"
  /\ driver.pc = "done"
  /\ Positions("start_advertising") # {}

C38_ReleasedOnEveryExit ==
  /\ ListenEnded =>
       /\ log[Len(log)].what = "stop_gatt_server"
       /\ log[Len(log) - 1].what = "stop_advertising"
       /\ \A i \in Positions("start_advertising") : i < Len(log) - 1
       /\ ~ble.advertising
       /\ ~ble.gatt
  /\ (under_test = "MTAReceiver" /\ driver.cfg.entry = "listen") =>
       /\ Cardinality(Positions("stop_advertising")) <= 2
       /\ Positions("stop_advertising") # {} => ~ble.advertising

C38_Witness ==
  /\ ListenEnded
  /\ driver.outcome = Some("URLError")
  /\ Cardinality(Positions("stop_advertising")) = 2
  /\ Positions("on_p2p") # {}

(***************************************************************************)
(* C39: for a text share (a sendRequest carrying catShareText),            *)
(* MTAReceiver.receive_from calls on_text, sends exactly one status type 1 *)
(* frame with id 100 without calling accept_transfer and without           *)
(* downloading anything, and returns an empty file list; the receiver      *)
(* state goes from WaitUserAccept directly to Completed.                   *)
(***************************************************************************)
\* receive_from has handled a TextReceived event and returned
TextShareReturned ==
  /\ under_test = "MTAReceiver"
  /\ Handling("TextReceived") # {}
  /\ driver.outcome = Some("returned")

TextShareHandled ==
  TextShareReturned =>
    LET t == CHOOSE i \in Handling("TextReceived") : TRUE
    IN /\ Handling("TextReceived") = {t}
       /\ driver.cfg.on_text =>
            \E i \in Positions("on_text") :
              /\ Positions("on_text") = {i}
              /\ t < i
              /\ \A j \in StatusSent(STATUS_OK) : i < j
       /\ \E i \in StatusSent(STATUS_OK) :
            /\ StatusSent(STATUS_OK) = {i}
            /\ t < i
            /\ Val(Parse(log[i].arg)).id = 100
       /\ IsNone(driver.accept_event)
       /\ Positions("download") = {}
       /\ driver.received_files = <<>>
       /\ receiver.state = "COMPLETED"
       /\ emitted = <<100>>

\* until send_ok is called for the text share the receiver is in
\* WaitUserAccept
TextShareFromWaitUserAccept ==
  (under_test = "MTAReceiver" /\ driver.pc \in {"on_text", "send_ok"}
   /\ Val(driver.cur[1]).kind = "TextReceived")
    => receiver.state = "WAITING_USER_ACCEPT"

C40_NeverFailedNoReturn ==
  OnSender =>
    /\ sender.state # "FAILED"
    /\ sender.state \in SenderState
    /\ (last # NoCall /\ pre.state # "INITIAL") => sender.state # "INITIAL"

C40_Witness ==
  /\ OnSender
  /\ last # NoCall
  /\ pre.state = "COMPLETED"
  /\ last.op = "start_handshake"
  /\ sender.state = "SENT_VERSION"

====
